---------------------------- MODULE Spec2Model ----------------------------
(***************************************************************************)
(* SugarClock firmware: the display state engine (glucose_engine.cpp), the *)
(* glucose polling client (http_client.cpp), the notification pool         *)
(* (notify_engine.cpp), the configuration record (config_manager.cpp) and  *)
(* the cooperative main loop (main.cpp), as one state machine.             *)
(*                                                                         *)
(* Time is millis() in milliseconds.  Strings are modelled by what the     *)
(* code reads of them: a text is "" or a short literal, and strlen(s) > 0  *)
(* is s # "".                                                              *)
(***************************************************************************)
EXTENDS Integers, Sequences, FiniteSets, TLC

(***************************************************************************)
(* enum DisplayState (glucose_engine.h): the enumerators in declaration    *)
(* order.  A DisplayState is an int in the code, and evaluate_state casts  *)
(* the server's force_mode integer to it, so states are integers here.     *)
(***************************************************************************)
STATE_BOOT ==
    0
STATE_GLUCOSE_DISPLAY ==
    1
STATE_TIME_DISPLAY ==
    2
STATE_WEATHER_DISPLAY ==
    3
STATE_TIMER_DISPLAY ==
    4
STATE_STOPWATCH_DISPLAY ==
    5
STATE_SYSMON_DISPLAY ==
    6
STATE_COUNTDOWN_DISPLAY ==
    7
STATE_TREND_DISPLAY ==
    8
STATE_MESSAGE_DISPLAY ==
    9
STATE_NOTIFY_DISPLAY ==
    10
STATE_STALE_WARNING ==
    11
STATE_NO_DATA ==
    12
STATE_NO_WIFI ==
    13
STATE_NO_CFG ==
    14

\* enum TrendType (trend_arrows.h).
TREND_RISING_FAST ==
    0
TREND_RISING ==
    1
TREND_FLAT ==
    2
TREND_FALLING ==
    3
TREND_FALLING_FAST ==
    4
TREND_UNKNOWN ==
    5

\* The closed enumeration: the 15 display states.
DisplayState ==
    STATE_BOOT .. STATE_NO_CFG

(***************************************************************************)
(* Program constants.                                                      *)
(***************************************************************************)
FAILURE_STALE_COUNT ==
    5
FAILURE_NODATA_COUNT ==
    10
STALE_WARNING_MS ==
    600000
RENDER_INTERVAL_MS ==
    100
BOOT_SPLASH_MS ==
    2000
NODATA_GRACE_MS ==
    5000
REBUILD_INTERVAL_MS ==
    5000
SYSMON_STALE_MS ==
    30000
MAX_NOTIFICATIONS ==
    3
MIN_POLL_INTERVAL_SEC ==
    15
\* setup() sleeps delay(100) before anything else, so millis() >= 100 when
\* engine_init() runs.
SETUP_DELAY_MS ==
    100
\* ULONG_MAX, the largest unsigned long: what http_time_since_last_reading
\* returns when nothing was ever received.  The target's is 4294967295; the
\* model's unsigned long is 31 bits wide, the widest its integers carry.
\* The clock of SpecAlert runs across the wrap; every instant of the other
\* specifications lies far below it.
ULONG_MAX ==
    2147483647

\* a - b on unsigned long, wrapping modulo ULONG_MAX + 1.
USub(a, b) ==
    IF a >= b THEN a - b ELSE (ULONG_MAX - b) + a + 1

\* a + b on unsigned long, wrapping modulo ULONG_MAX + 1.
UAdd(a, b) ==
    IF a <= ULONG_MAX - b THEN a + b ELSE a - (ULONG_MAX - b) - 1

(***************************************************************************)
(* Bounds of the model.                                                    *)
(***************************************************************************)
\* The number of ten-minute instants the clock visits after the boot phase.
MaxBigSteps ==
    1
\* The cap on failure_count (the code's counter is unbounded): no poll is
\* made once it is reached.
MaxFailures ==
    11
\* The size of the array toggle_order[] of glucose_engine.cpp.
TOGGLE_ORDER_SIZE ==
    12

\* The number of asynchronous web requests served in one run.
MaxWebCalls ==
    1

\* The instants at which the loop runs during the boot phase: elapsed time
\* since engine_init of 0 s, 2 s (the splash has just ended) and 6 s (the
\* grace period has passed).
BootInstants ==
    {SETUP_DELAY_MS + d : d \in {0, 2000, 6000}}

\* The later instants: ten minutes apart, counted from engine_init.
BigStepMs ==
    10 * 60000

Instants ==
    BootInstants \cup {SETUP_DELAY_MS + k * BigStepMs : k \in 1..MaxBigSteps}

VARIABLES
    now,                \* millis()
    pc,                 \* the position of loop(): the next component to run
    web_calls,          \* asynchronous web requests served so far
    prefs,              \* the Preferences namespace in flash (NVS)
    config,             \* AppConfig config (the fields the engine reads)
    wifi_connected,     \* WiFi.status() == WL_CONNECTED
    current_reading,    \* http_client: GlucoseReading current_reading
    failure_count,
    ever_received,
    last_poll_ms,
    last_success_ms,
    prev_glucose,
    current_delta,
    has_prev_reading,
    dexcom_session_id,
    dexcom_session_time_ms,
    history_buf,        \* http_client: GlucoseHistoryEntry history_buf[48]
    history_write_idx,
    history_count,
    accepted,           \* history: the last two accepted glucose values
    recorded,           \* history: every entry record_reading() has written
    trend_in,           \* history: the trend of the last document parsed
    notifications,      \* notify_engine: Notification notifications[3]
    sysmon_last_push_ms,
    current_state,      \* glucose_engine
    forced_state,
    state_forced,
    default_mode,
    user_mode,
    boot_start_ms,
    last_render_ms,
    last_rebuild_ms,
    toggle_order,
    toggle_index,
    last_cycle_ms,
    message_buf,
    drawn_color,        \* the colour render_state last drew the glucose glyphs in
    alert_snooze_until_ms,
    last_beep_ms,
    initialized,        \* buzzer
    beeps_remaining,
    beep_freq,
    beep_duration_ms,
    beep_start_ms,
    beep_on,
    force_req,          \* history: the state of the override request in force
    toggle_run,         \* history: the run of engine_toggle_mode() calls in progress
    nav_log,            \* history: the times of the last manual change of
                        \* user_mode and of the last automatic advance
    alert_log,          \* history: the times of the last two bursts of
                        \* check_alerts(), -1 for none
    snooze_log,         \* history: the last engine_snooze_alerts() call
    buzzer_log,         \* history: the last buzzer_beep() call and the output since
    current_brightness, \* display: the brightness display_set_brightness() last set
    ap_mode,            \* wifi: the access point of the setup is up
    connecting,         \* wifi: a connection attempt is in progress
    was_connected,      \* wifi: the link was up when wifi_loop() last ran
    last_attempt_ms,    \* wifi: millis() when WiFi.begin() was last called
    weather_last_poll_ms, \* weather: millis() at the last poll, 0 for none
    blocked_ms,         \* history: the time this pass of loop() has spent in
                        \* network requests since esp_task_wdt_reset()
    last_seen_glucose,  \* glucose_engine: the value the delta flash last saw
    delta_flash_start_ms,
    delta_flash_active,
    drawn,              \* the content render_state last drew: the text and
                        \* whether the '!' of the stale warning is on it
    buttons,            \* buttons: ButtonState buttons[3]
    raw,                \* the levels of the three button pins (LOW = pressed)
    last_event,         \* the event buttons_get_event() last returned
    timer_state,        \* timer_engine: the pomodoro timer
    timer_start_ms,
    timer_paused_remaining_ms,
    timer_current_session,
    timer_duration_ms,
    timer_log,          \* history: the phase the timer was paused in, the work
                        \* sessions completed since the start, and whether
                        \* the run was paused
    toggle_tail,        \* glucose_engine: the entries of toggle_order[] past
                        \* toggle_count, left there by earlier rebuilds
    task,               \* the statement each task (the loop task, the web
                        \* server's task) has reached inside the engine
    race_log,           \* history: a modulo by toggle_count == 0 was
                        \* computed, toggle_order[] was read past toggle_count
    ldr_smoothed,       \* sensors: the smoothed reading of the light sensor
    time_available,     \* time_engine: time_is_available()
    time_hour           \* time_engine: time_get_hour()

http_vars ==
    <<current_reading, failure_count, ever_received, last_poll_ms,
      last_success_ms, prev_glucose, current_delta, has_prev_reading,
      dexcom_session_id, dexcom_session_time_ms, history_buf,
      history_write_idx, history_count, accepted, recorded, trend_in>>

engine_vars ==
    <<current_state, forced_state, state_forced, default_mode, user_mode,
      boot_start_ms, last_render_ms, last_rebuild_ms, toggle_order,
      toggle_index, last_cycle_ms, message_buf, drawn_color, force_req,
      toggle_run, nav_log, alert_snooze_until_ms, last_beep_ms,
      alert_log, snooze_log>>

alert_vars ==
    <<alert_snooze_until_ms, last_beep_ms, alert_log, snooze_log>>

buzzer_vars ==
    <<initialized, beeps_remaining, beep_freq, beep_duration_ms,
      beep_start_ms, beep_on, buzzer_log>>

display_vars ==
    <<current_brightness, ldr_smoothed, time_available, time_hour>>

wifi_vars ==
    <<ap_mode, connecting, was_connected, last_attempt_ms>>

net_vars ==
    <<wifi_vars, weather_last_poll_ms>>

\* The state of the components outside the glucose display.
render_vars ==
    <<last_seen_glucose, delta_flash_start_ms, delta_flash_active, drawn>>

button_vars ==
    <<buttons, raw, last_event>>

timer_vars ==
    <<timer_state, timer_start_ms, timer_paused_remaining_ms,
      timer_current_session, timer_duration_ms, timer_log>>

race_vars ==
    <<toggle_tail, task, race_log>>

side_vars ==
    <<blocked_ms, render_vars, button_vars, timer_vars, race_vars>>

vars ==
    <<now, pc, web_calls, config, prefs, wifi_connected, http_vars,
      notifications, sysmon_last_push_ms, engine_vars, buzzer_vars,
      display_vars, net_vars, side_vars>>

Min(a, b) ==
    IF a < b THEN a ELSE b

Max(a, b) ==
    IF a > b THEN a ELSE b

\* Arduino's constrain(x, lo, hi).
constrain(x, lo, hi) ==
    IF x < lo THEN lo ELSE IF x > hi THEN hi ELSE x

(***************************************************************************)
(* config_manager: the configuration record.                               *)
(***************************************************************************)
\* config_set_defaults(): the record of a first boot.
config_set_defaults ==
    [ wifi_ssid          |-> "tight*5",
      data_source        |-> 0,
      server_url         |-> "",
      dexcom_username    |-> "",
      dexcom_password    |-> "",
      poll_interval_sec  |-> 60,
      brightness         |-> 40,
      auto_brightness    |-> TRUE,
      thresh_urgent_low  |-> 70,
      thresh_low         |-> 80,
      thresh_high        |-> 180,
      thresh_urgent_high |-> 250,
      default_mode       |-> 0,
      color_urgent_low   |-> 15352629,   \* 0xEA4335
      color_low          |-> 16497668,   \* 0xFBBC04
      color_in_range     |-> 3450963,    \* 0x34A853
      color_high         |-> 16497668,   \* 0xFBBC04
      color_urgent_high  |-> 15352629,   \* 0xEA4335
      night_mode_enabled |-> FALSE,
      night_start_hour   |-> 22,
      night_end_hour     |-> 7,
      night_brightness   |-> 10,
      stale_timeout_min  |-> 20,
      weather_enabled    |-> FALSE,
      timer_enabled      |-> TRUE,
      stopwatch_enabled  |-> TRUE,
      notify_enabled     |-> TRUE,
      show_delta         |-> FALSE,
      timer_work_min     |-> 25,
      timer_break_min    |-> 5,
      timer_long_break_min |-> 15,
      timer_sessions     |-> 4,
      timer_buzzer       |-> TRUE,
      notify_default_duration |-> 60,
      notify_allow_buzzer |-> TRUE,
      alert_enabled      |-> FALSE,
      alert_low          |-> 70,
      alert_high         |-> 250,
      alert_snooze_min   |-> 15,
      sysmon_enabled     |-> TRUE,
      countdown_enabled  |-> FALSE,
      auto_cycle_enabled |-> TRUE,
      auto_cycle_sec     |-> 10,
      weather_city       |-> "New York,US",
      weather_api_key    |-> "",
      weather_poll_min   |-> 15,
      sysmon_label       |-> "CPU" ]

config_has_wifi ==
    config.wifi_ssid # ""

config_has_dexcom ==
    config.dexcom_username # "" /\ config.dexcom_password # ""

config_has_server ==
    IF config.data_source = 1 THEN config_has_dexcom
    ELSE config.server_url # ""

\* What handle_post_config stores for field f when the document carries the
\* value v: the numeric fields it clamps, and the others unchanged.
config_field_value(f, v) ==
    CASE f = "poll_interval_sec"  -> Max(MIN_POLL_INTERVAL_SEC, v)
      [] f = "brightness"         -> constrain(v, 1, 255)
      [] f = "night_start_hour"   -> constrain(v, 0, 23)
      [] f = "night_end_hour"     -> constrain(v, 0, 23)
      [] f = "night_brightness"   -> constrain(v, 1, 255)
      [] f = "stale_timeout_min"  -> constrain(v, 5, 60)
      [] f = "timer_work_min"     -> constrain(v, 1, 120)
      [] f = "timer_break_min"    -> constrain(v, 1, 60)
      [] f = "timer_long_break_min" -> constrain(v, 1, 60)
      [] f = "timer_sessions"     -> constrain(v, 1, 12)
      [] f = "weather_poll_min"   -> constrain(v, 5, 60)
      [] f = "auto_cycle_sec"     -> constrain(v, 3, 300)
      [] f = "notify_default_duration" -> constrain(v, 5, 600)
      [] f = "alert_snooze_min"   -> constrain(v, 1, 120)
      [] OTHER                    -> v

\* The record after POST /api/config with JSON document doc (a record that
\* holds the fields the request carries): each field present is stored, and
\* the fields absent keep their value.
config_after_post(doc) ==
    [f \in DOMAIN config |->
        IF f \in DOMAIN doc THEN config_field_value(f, doc[f]) ELSE config[f]]

\* CONFIG_MAGIC, the validity marker of the stored configuration ("GLUC").
CONFIG_MAGIC ==
    1196184899

\* The NVS key config_save() stores each field under.
prefs_key ==
    [ wifi_ssid          |-> "wifi_ssid",
      data_source        |-> "data_src",
      server_url         |-> "server_url",
      dexcom_username    |-> "dex_user",
      dexcom_password    |-> "dex_pass",
      poll_interval_sec  |-> "poll_int",
      brightness         |-> "brightness",
      auto_brightness    |-> "auto_brt",
      thresh_urgent_low  |-> "t_ulow",
      thresh_low         |-> "t_low",
      thresh_high        |-> "t_high",
      thresh_urgent_high |-> "t_uhigh",
      default_mode       |-> "def_mode",
      color_urgent_low   |-> "c_ulow",
      color_low          |-> "c_low",
      color_in_range     |-> "c_inrange",
      color_high         |-> "c_high",
      color_urgent_high  |-> "c_uhigh",
      night_mode_enabled |-> "night_en",
      night_start_hour   |-> "night_start",
      night_end_hour     |-> "night_end",
      night_brightness   |-> "night_brt",
      stale_timeout_min  |-> "stale_min",
      weather_enabled    |-> "wx_en",
      timer_enabled      |-> "tmr_en",
      stopwatch_enabled  |-> "sw_en",
      notify_enabled     |-> "ntfy_en",
      show_delta         |-> "show_delta",
      timer_work_min     |-> "tmr_work",
      timer_break_min    |-> "tmr_brk",
      timer_long_break_min |-> "tmr_lbrk",
      timer_sessions     |-> "tmr_sess",
      timer_buzzer       |-> "tmr_buzz",
      notify_default_duration |-> "ntfy_dur",
      notify_allow_buzzer |-> "ntfy_buzz",
      alert_enabled      |-> "alert_en",
      alert_low          |-> "alert_low",
      alert_high         |-> "alert_high",
      alert_snooze_min   |-> "alert_snz",
      sysmon_enabled     |-> "smon_en",
      countdown_enabled  |-> "cd_en",
      auto_cycle_enabled |-> "acyc_en",
      auto_cycle_sec     |-> "acyc_sec",
      weather_city       |-> "wx_city",
      weather_api_key    |-> "wx_apikey",
      weather_poll_min   |-> "wx_poll",
      sysmon_label       |-> "smon_lbl" ]

\* The fields config_save() stores with putUChar.
UCharFields ==
    {"brightness", "night_brightness"}

\* config_save(): the namespace after record c is stored, each field under
\* its key and the marker under "magic".
config_save(c) ==
    [k \in {prefs_key[f] : f \in DOMAIN c} \cup {"magic"} |->
        IF k = "magic" THEN CONFIG_MAGIC
        ELSE LET f == CHOOSE g \in DOMAIN c : prefs_key[g] = k
             IN  IF f \in UCharFields THEN c[f] % 256 ELSE c[f]]

\* The value config_init() gives field f on reading v from the namespace.
config_loaded_value(f, v) ==
    CASE f = "weather_city"      -> IF v = "" THEN "New York,US" ELSE v
      [] f = "sysmon_label"      -> IF v = "" THEN "CPU" ELSE v
      [] f = "auto_cycle_sec"    -> constrain(v, 3, 300)
      [] f = "poll_interval_sec" -> Max(MIN_POLL_INTERVAL_SEC, v)
      [] f = "weather_poll_min"  -> Max(5, v)
      [] OTHER                   -> v

\* config_init(): the record in memory after a boot with namespace p, the
\* factory defaults when the marker is missing.
config_init(p) ==
    IF p.magic # CONFIG_MAGIC THEN config_set_defaults
    ELSE [f \in DOMAIN config_set_defaults |->
             config_loaded_value(f, p[prefs_key[f]])]

(***************************************************************************)
(* http_client: the glucose polling client.                                *)
(***************************************************************************)
\* GlucoseHistoryEntry.
HistoryEntry(glucose, delta, timestamp) ==
    [glucose |-> glucose, delta |-> delta, timestamp |-> timestamp]

GLUCOSE_HISTORY_SIZE ==
    48

\* The buffer as the C runtime zero-initialises it.
history_buf_zero ==
    [i \in 0..(GLUCOSE_HISTORY_SIZE - 1) |-> HistoryEntry(0, 0, 0)]

\* record_reading(glucose) without the test of has_prev_reading.
record_reading_delta_unguarded(glucose) ==
    glucose - prev_glucose

\* record_reading(glucose): the delta against the previous accepted value.
record_reading_delta(glucose) ==
    IF has_prev_reading THEN glucose - prev_glucose ELSE 0

\* failure_count++ adding two.
failure_count_inc_twice ==
    failure_count + 2

\* failure_count++.
failure_count_inc ==
    failure_count + 1

\* A C string is the sequence of its characters.  The trend labels the
\* code names, and "Unknown", its default for a missing label.
Label ==
    [
      RisingFast    |-> <<"R", "i", "s", "i", "n", "g", "F", "a", "s", "t">>,
      DoubleUp      |-> <<"D", "o", "u", "b", "l", "e", "U", "p">>,
      Rising        |-> <<"R", "i", "s", "i", "n", "g">>,
      SingleUp      |-> <<"S", "i", "n", "g", "l", "e", "U", "p">>,
      Flat          |-> <<"F", "l", "a", "t">>,
      FortyFiveUp   |-> <<"F", "o", "r", "t", "y", "F", "i", "v", "e", "U", "p">>,
      FortyFiveDown |-> <<"F", "o", "r", "t", "y", "F", "i", "v", "e", "D", "o", "w", "n">>,
      Falling       |-> <<"F", "a", "l", "l", "i", "n", "g">>,
      SingleDown    |-> <<"S", "i", "n", "g", "l", "e", "D", "o", "w", "n">>,
      FallingFast   |-> <<"F", "a", "l", "l", "i", "n", "g", "F", "a", "s", "t">>,
      DoubleDown    |-> <<"D", "o", "u", "b", "l", "e", "D", "o", "w", "n">>,
      Unknown       |-> <<"U", "n", "k", "n", "o", "w", "n">> ]

UpperChars ==
    <<"A", "B", "C", "D", "E", "F", "G", "H", "I", "J", "K", "L", "M">> \o
    <<"N", "O", "P", "Q", "R", "S", "T", "U", "V", "W", "X", "Y", "Z">>

LowerChars ==
    <<"a", "b", "c", "d", "e", "f", "g", "h", "i", "j", "k", "l", "m">> \o
    <<"n", "o", "p", "q", "r", "s", "t", "u", "v", "w", "x", "y", "z">>

\* tolower().
tolower(c) ==
    IF \E i \in 1..Len(UpperChars) : UpperChars[i] = c
    THEN LowerChars[CHOOSE i \in 1..Len(UpperChars) : UpperChars[i] = c]
    ELSE c

\* strcasecmp(a, b) == 0.
strcasecmp_equal(a, b) ==
    /\ Len(a) = Len(b)
    /\ \A i \in 1..Len(a) : tolower(a[i]) = tolower(b[i])

\* parse_trend(): the label of the JSON document to a TrendType.
parse_trend(trend_str) ==
    LET is(l) == strcasecmp_equal(trend_str, l)
    IN  CASE is(Label.RisingFast) \/ is(Label.DoubleUp)     -> TREND_RISING_FAST
          [] is(Label.Rising) \/ is(Label.SingleUp)        -> TREND_RISING
          [] is(Label.Flat)                                -> TREND_FLAT
          [] is(Label.FortyFiveUp)                         -> TREND_RISING
          [] is(Label.FortyFiveDown)                       -> TREND_FALLING
          [] is(Label.Falling) \/ is(Label.SingleDown)     -> TREND_FALLING
          [] is(Label.FallingFast) \/ is(Label.DoubleDown) -> TREND_FALLING_FAST
          [] OTHER                                         -> TREND_UNKNOWN

\* The trend of a document, as the history keeps it: its JSON type, and
\* its number or its text.
trend_of(doc) ==
    [kind  |-> IF "trend_kind" \in DOMAIN doc THEN doc.trend_kind ELSE "str",
     num   |-> IF "trend_num" \in DOMAIN doc THEN doc.trend_num ELSE 0,
     label |-> doc.trend]

trend_in_none ==
    [kind |-> "none", num |-> 0, label |-> <<>>]

\* The accepted-values history after value v is accepted: the last two.
accepted_after(v) ==
    IF Len(accepted) < 2 THEN Append(accepted, v) ELSE <<accepted[2], v>>

\* record_reading(glucose) counting every entry written, the capacity
\* reached or not.
record_reading_uncapped(glucose) ==
    LET entry == HistoryEntry(glucose, record_reading_delta(glucose), now)
    IN  /\ current_delta' = record_reading_delta(glucose)
        /\ prev_glucose' = glucose
        /\ has_prev_reading' = TRUE
        /\ history_buf' = [history_buf EXCEPT ![history_write_idx] = entry]
        /\ history_write_idx' =
               (history_write_idx + 1) % GLUCOSE_HISTORY_SIZE
        /\ history_count' = history_count + 1
        /\ accepted' = accepted_after(glucose)
        /\ recorded' = Append(recorded, entry)

\* record_reading(glucose): the delta, and the entry written to the
\* circular buffer at the write index.
record_reading(glucose) ==
    LET entry == HistoryEntry(glucose, record_reading_delta(glucose), now)
    IN  /\ current_delta' = record_reading_delta(glucose)
        /\ prev_glucose' = glucose
        /\ has_prev_reading' = TRUE
        /\ history_buf' = [history_buf EXCEPT ![history_write_idx] = entry]
        /\ history_write_idx' =
               (history_write_idx + 1) % GLUCOSE_HISTORY_SIZE
        /\ history_count' =
               IF history_count < GLUCOSE_HISTORY_SIZE
               THEN history_count + 1 ELSE history_count
        /\ accepted' = accepted_after(glucose)
        /\ recorded' = Append(recorded, entry)

\* http_get_history(out, max_count) reading from slot 0 whether the buffer
\* has wrapped or not.
http_get_history_from_zero(max_count) ==
    IF history_count = 0 THEN <<>>
    ELSE LET count == Min(max_count, history_count)
         IN  [i \in 1..count |->
                 history_buf[((history_count - count) + (i - 1))
                             % GLUCOSE_HISTORY_SIZE]]

\* http_get_history(out, max_count): the entries copied to out, as a
\* sequence (out[0] is its first element); the return value is its length.
http_get_history(max_count) ==
    IF history_count = 0 THEN <<>>
    ELSE LET count == Min(max_count, history_count)
             start == IF history_count < GLUCOSE_HISTORY_SIZE THEN 0
                      ELSE history_write_idx
         IN  [i \in 1..count |->
                 history_buf[(start + (history_count - count) + (i - 1))
                             % GLUCOSE_HISTORY_SIZE]]

\* A poll attempt that ends before a document is parsed: the connection
\* could not be opened, the status is not 200, or the body is no JSON.
fetch_failed ==
    /\ failure_count' = failure_count_inc
    /\ UNCHANGED <<current_reading, ever_received, last_success_ms,
                   prev_glucose, current_delta, has_prev_reading,
                   history_buf, history_write_idx, history_count, accepted,
                   recorded, trend_in>>

\* generic_fetch() when the server answers 200 with the JSON document doc:
\* the slot is overwritten, and the reading is accepted when glucose > 0.
\* The trend is read as a string, "Unknown" standing in for a trend that
\* is missing or is no string.
generic_fetch_json(doc) ==
    LET glucose   == doc.glucose
        valid     == glucose > 0
        trend_str == IF trend_of(doc).kind = "str" THEN doc.trend
                     ELSE Label.Unknown
    IN  /\ trend_in' = trend_of(doc)
        /\ current_reading' =
               [ glucose        |-> glucose,
                 trend          |-> parse_trend(trend_str),
                 message        |-> doc.message,
                 force_mode     |-> doc.force_mode,
                 received_at_ms |-> now,
                 valid          |-> valid ]
        /\ IF valid
           THEN /\ record_reading(glucose)
                /\ failure_count' = 0
                /\ ever_received' = TRUE
                /\ last_success_ms' = now
           ELSE /\ failure_count' = failure_count_inc
                /\ UNCHANGED <<ever_received, last_success_ms, prev_glucose,
                               current_delta, has_prev_reading, history_buf,
                               history_write_idx, history_count, accepted,
                               recorded>>

\* generic_fetch(): one poll of the custom JSON endpoint with outcome o.
generic_fetch(o) ==
    IF o.kind = "json" THEN generic_fetch_json(o) ELSE fetch_failed

\* parse_trend_number(): the legacy numeric trend code of Dexcom Share.
parse_trend_number(trend) ==
    CASE trend = 1 -> TREND_RISING_FAST
      [] trend \in {2, 3} -> TREND_RISING
      [] trend = 4 -> TREND_FLAT
      [] trend \in {5, 6} -> TREND_FALLING
      [] trend = 7 -> TREND_FALLING_FAST
      [] OTHER -> TREND_UNKNOWN

DEXCOM_SESSION_LIFETIME_MS ==
    3600000

\* Whether dexcom_fetch_glucose() logs in again before it fetches.
dexcom_needs_login ==
    \/ dexcom_session_id = ""
    \/ USub(now, dexcom_session_time_ms) > DEXCOM_SESSION_LIFETIME_MS

\* dexcom_fetch_glucose() when the server answers 200 with a non-empty
\* array whose first element is doc.
dexcom_fetch_json(doc) ==
    LET glucose == doc.glucose
        valid   == glucose > 0
        trend   == CASE doc.trend_kind = "int" -> parse_trend_number(doc.trend_num)
                     [] doc.trend_kind = "str" -> parse_trend(doc.trend)
                     [] OTHER -> TREND_UNKNOWN
    IN  /\ trend_in' = trend_of(doc)
        /\ current_reading' =
               [ glucose        |-> glucose,
                 trend          |-> trend,
                 message        |-> "",
                 force_mode     |-> -1,
                 received_at_ms |-> now,
                 valid          |-> valid ]
        /\ IF valid
           THEN /\ record_reading(glucose)
                /\ failure_count' = 0
                /\ ever_received' = TRUE
                /\ last_success_ms' = now
           ELSE /\ failure_count' = failure_count_inc
                /\ UNCHANGED <<ever_received, last_success_ms, prev_glucose,
                               current_delta, has_prev_reading, history_buf,
                               history_write_idx, history_count, accepted,
                               recorded>>

\* dexcom_fetch_glucose(): one poll of Dexcom Share with outcome o.  A
\* failed login ends the attempt; a status of 500 drops the session.
dexcom_fetch_glucose(o) ==
    IF dexcom_needs_login /\ o.kind = "login_fail"
    THEN /\ fetch_failed
         /\ UNCHANGED <<dexcom_session_id, dexcom_session_time_ms>>
    ELSE /\ dexcom_session_id' = IF o.kind = "http_500" THEN "" ELSE "session"
         /\ dexcom_session_time_ms' =
                IF dexcom_needs_login THEN now ELSE dexcom_session_time_ms
         /\ IF o.kind = "json" THEN dexcom_fetch_json(o) ELSE fetch_failed

\* The interval between polls.
poll_interval_ms ==
    Max(MIN_POLL_INTERVAL_SEC, config.poll_interval_sec) * 1000

\* Whether http_loop() polls on this pass.
http_poll_due ==
    /\ wifi_connected
    /\ config_has_server
    /\ ~(last_poll_ms # 0 /\ USub(now, last_poll_ms) < poll_interval_ms)


(***************************************************************************)
(* notify_engine: the notification pool (slots 0..2).                      *)
(***************************************************************************)
Slots ==
    0 .. (MAX_NOTIFICATIONS - 1)

notify_has_active ==
    \E i \in Slots : notifications[i].active

\* The slot notify_push() writes: the first inactive one, or the last after
\* the pool is shifted down by one.
notify_push_slot ==
    IF \E i \in Slots : ~notifications[i].active
    THEN CHOOSE i \in Slots :
            /\ ~notifications[i].active
            /\ \A j \in Slots : j < i => notifications[j].active
    ELSE MAX_NOTIFICATIONS - 1

\* The pool after notify_push(text, duration_sec, urgent).
notify_push(text, duration_sec, urgent) ==
    LET full    == \A i \in Slots : notifications[i].active
        shifted == [i \in Slots |->
                       IF full /\ i < MAX_NOTIFICATIONS - 1
                       THEN notifications[i + 1] ELSE notifications[i]]
    IN  [shifted EXCEPT ![notify_push_slot] =
            [ text      |-> text,
              expire_ms |-> UAdd(now, duration_sec * 1000),
              urgent    |-> urgent,
              active    |-> TRUE ]]

\* The pool after notify_loop(): the notifications past their expiry are
\* switched off.
notify_expired ==
    [i \in Slots |->
        IF notifications[i].active /\ now >= notifications[i].expire_ms
        THEN [notifications[i] EXCEPT !.active = FALSE]
        ELSE notifications[i]]

(***************************************************************************)
(* sysmon_engine.                                                          *)
(***************************************************************************)
sysmon_has_data ==
    IF sysmon_last_push_ms = 0 THEN FALSE
    ELSE USub(now, sysmon_last_push_ms) < SYSMON_STALE_MS

(***************************************************************************)
(* buzzer: the beep sequencer.  The output is on when the duty written by  *)
(* ledcWrite() is 128 and off when it is 0; beep_on follows every write.   *)
(***************************************************************************)
BEEP_GAP_MS ==
    150

\* buzzer_beep() was not called.
buzzer_log_none ==
    [requested |-> -1, duration |-> 0, switched_on |-> 0,
     last_switch_ms |-> 0]

\* buzzer_beep(count, freq, duration_ms): the first beep starts at once.
buzzer_beep(count, freq, duration_ms) ==
    IF ~initialized THEN UNCHANGED buzzer_vars
    ELSE /\ beeps_remaining' = count
         /\ beep_freq' = freq
         /\ beep_duration_ms' = duration_ms
         /\ beep_on' = TRUE
         /\ beep_start_ms' = now
         /\ buzzer_log' = [requested |-> count, duration |-> duration_ms,
                           switched_on |-> 1, last_switch_ms |-> now]
         /\ UNCHANGED initialized

\* buzzer_loop(): the beep ends after its duration, and the next one starts
\* after the gap.
buzzer_loop ==
    IF ~initialized \/ beeps_remaining <= 0 THEN UNCHANGED buzzer_vars
    ELSE LET elapsed == USub(now, beep_start_ms)
         IN  IF beep_on
             THEN IF elapsed >= beep_duration_ms
                  THEN /\ beep_on' = FALSE
                       /\ beeps_remaining' = beeps_remaining - 1
                       /\ beep_start_ms' = now
                       /\ buzzer_log' =
                              [buzzer_log EXCEPT !.last_switch_ms = now]
                       /\ UNCHANGED <<initialized, beep_freq,
                                      beep_duration_ms>>
                  ELSE UNCHANGED buzzer_vars
             ELSE IF beeps_remaining > 0 /\ elapsed >= BEEP_GAP_MS
                  THEN /\ beep_on' = TRUE
                       /\ beep_start_ms' = now
                       /\ buzzer_log' =
                              [buzzer_log EXCEPT
                                  !.switched_on = @ + 1,
                                  !.last_switch_ms = now]
                       /\ UNCHANGED <<initialized, beeps_remaining,
                                      beep_freq, beep_duration_ms>>
                  ELSE UNCHANGED buzzer_vars

\* buzzer_is_active().
buzzer_is_active ==
    beeps_remaining > 0 \/ beep_on

\* The buzzer part of notify_push(text, duration_sec, urgent): two beeps for
\* an urgent notification.
notify_push_buzzer(urgent) ==
    IF urgent /\ config.notify_allow_buzzer
    THEN buzzer_beep(2, 2500, 150)
    ELSE UNCHANGED buzzer_vars

(***************************************************************************)
(* glucose_engine: the toggle order.                                       *)
(***************************************************************************)
\* The toggle order engine_rebuild_toggle_order() builds from record cfg.
build_toggle_order(cfg) ==
    <<STATE_GLUCOSE_DISPLAY, STATE_TREND_DISPLAY, STATE_TIME_DISPLAY>>
    \o (IF cfg.weather_enabled THEN <<STATE_WEATHER_DISPLAY>> ELSE <<>>)
    \o (IF cfg.timer_enabled THEN <<STATE_TIMER_DISPLAY>> ELSE <<>>)
    \o (IF cfg.stopwatch_enabled THEN <<STATE_STOPWATCH_DISPLAY>> ELSE <<>>)
    \o (IF cfg.sysmon_enabled /\ sysmon_has_data
        THEN <<STATE_SYSMON_DISPLAY>> ELSE <<>>)
    \o (IF cfg.countdown_enabled THEN <<STATE_COUNTDOWN_DISPLAY>> ELSE <<>>)

\* The index (from 0) engine_rebuild_toggle_order() gives toggle_index: the
\* first position of mode um in the order, or 0 when it is absent.
toggle_index_of(order, um) ==
    IF \E i \in 1..Len(order) : order[i] = um
    THEN (CHOOSE i \in 1..Len(order) :
              /\ order[i] = um
              /\ \A j \in 1..(i - 1) : order[j] # um) - 1
    ELSE 0

\* toggle_order[i] for the index i (from 0) of the code.
toggle_at(order, i) ==
    order[i + 1]

(***************************************************************************)
(* glucose_engine: the colour policy.                                      *)
(***************************************************************************)
\* The bands with the urgent-low test made by <= instead of <.
glucose_band_urgent_low_inclusive(mg_dl, cfg) ==
    IF mg_dl <= cfg.thresh_urgent_low THEN "urgent_low"
    ELSE IF mg_dl < cfg.thresh_low THEN "low"
    ELSE IF mg_dl <= cfg.thresh_high THEN "in_range"
    ELSE IF mg_dl <= cfg.thresh_urgent_high THEN "high"
    ELSE "urgent_high"

\* The bands with the low test made by <= instead of <.
glucose_band_low_inclusive(mg_dl, cfg) ==
    IF mg_dl < cfg.thresh_urgent_low THEN "urgent_low"
    ELSE IF mg_dl <= cfg.thresh_low THEN "low"
    ELSE IF mg_dl <= cfg.thresh_high THEN "in_range"
    ELSE IF mg_dl <= cfg.thresh_urgent_high THEN "high"
    ELSE "urgent_high"

\* The band of themed_glucose_color(mg_dl, cfg): the configuration field
\* whose colour it picks.
glucose_band(mg_dl, cfg) ==
    IF mg_dl < cfg.thresh_urgent_low THEN "urgent_low"
    ELSE IF mg_dl < cfg.thresh_low THEN "low"
    ELSE IF mg_dl <= cfg.thresh_high THEN "in_range"
    ELSE IF mg_dl <= cfg.thresh_urgent_high THEN "high"
    ELSE "urgent_high"

\* themed_glucose_color(mg_dl, cfg): the packed RGB colour c it hands to
\* the display driver.
themed_glucose_color(mg_dl, cfg) ==
    LET band == glucose_band(mg_dl, cfg)
    IN  CASE band = "urgent_low"  -> cfg.color_urgent_low
          [] band = "low"         -> cfg.color_low
          [] band = "in_range"    -> cfg.color_in_range
          [] band = "high"        -> cfg.color_high
          [] OTHER                -> cfg.color_urgent_high

(***************************************************************************)
(* glucose_engine: state selection.                                        *)
(***************************************************************************)
http_time_since_last_reading ==
    IF ~ever_received \/ last_success_ms = 0 THEN ULONG_MAX
    ELSE USub(now, last_success_ms)

\* evaluate_state() with the message test placed before the force_mode
\* test.
evaluate_state_message_first(um) ==
    LET stale_ms == config.stale_timeout_min * 60 * 1000
        elapsed  == USub(now, boot_start_ms)
        failures == failure_count
        age      == http_time_since_last_reading
    IN  IF elapsed < BOOT_SPLASH_MS THEN STATE_BOOT
        ELSE IF ~wifi_connected /\ config_has_wifi THEN STATE_NO_WIFI
        ELSE IF ~config_has_server /\ ~config_has_wifi THEN STATE_NO_CFG
        ELSE IF config.notify_enabled /\ notify_has_active
             THEN STATE_NOTIFY_DISPLAY
        ELSE IF /\ (failures >= FAILURE_NODATA_COUNT \/ ~ever_received)
                /\ config_has_server
                /\ elapsed > NODATA_GRACE_MS
             THEN STATE_NO_DATA
        ELSE IF age >= stale_ms \/ failures >= FAILURE_STALE_COUNT
             THEN STATE_STALE_WARNING
        ELSE IF state_forced THEN forced_state
        ELSE IF current_reading.valid /\ current_reading.message # ""
             THEN STATE_MESSAGE_DISPLAY
        ELSE IF current_reading.valid /\ current_reading.force_mode >= 0
             THEN current_reading.force_mode
        ELSE um


\* evaluate_state() with the age compared by > instead of >=.
evaluate_state_age_strict(um) ==
    LET stale_ms == config.stale_timeout_min * 60 * 1000
        elapsed  == USub(now, boot_start_ms)
        failures == failure_count
        age      == http_time_since_last_reading
    IN  IF elapsed < BOOT_SPLASH_MS THEN STATE_BOOT
        ELSE IF ~wifi_connected /\ config_has_wifi THEN STATE_NO_WIFI
        ELSE IF ~config_has_server /\ ~config_has_wifi THEN STATE_NO_CFG
        ELSE IF config.notify_enabled /\ notify_has_active
             THEN STATE_NOTIFY_DISPLAY
        ELSE IF /\ (failures >= FAILURE_NODATA_COUNT \/ ~ever_received)
                /\ config_has_server
                /\ elapsed > NODATA_GRACE_MS
             THEN STATE_NO_DATA
        ELSE IF age > stale_ms \/ failures >= FAILURE_STALE_COUNT
             THEN STATE_STALE_WARNING
        ELSE IF state_forced THEN forced_state
        ELSE IF current_reading.valid /\ current_reading.force_mode >= 0
             THEN current_reading.force_mode
        ELSE IF current_reading.valid /\ current_reading.message # ""
             THEN STATE_MESSAGE_DISPLAY
        ELSE um


\* evaluate_state() without the grace period of the no-data test.
evaluate_state_no_grace(um) ==
    LET stale_ms == config.stale_timeout_min * 60 * 1000
        elapsed  == USub(now, boot_start_ms)
        failures == failure_count
        age      == http_time_since_last_reading
    IN  IF elapsed < BOOT_SPLASH_MS THEN STATE_BOOT
        ELSE IF ~wifi_connected /\ config_has_wifi THEN STATE_NO_WIFI
        ELSE IF ~config_has_server /\ ~config_has_wifi THEN STATE_NO_CFG
        ELSE IF config.notify_enabled /\ notify_has_active
             THEN STATE_NOTIFY_DISPLAY
        ELSE IF /\ (failures >= FAILURE_NODATA_COUNT \/ ~ever_received)
                /\ config_has_server
             THEN STATE_NO_DATA
        ELSE IF age >= stale_ms \/ failures >= FAILURE_STALE_COUNT
             THEN STATE_STALE_WARNING
        ELSE IF state_forced THEN forced_state
        ELSE IF current_reading.valid /\ current_reading.force_mode >= 0
             THEN current_reading.force_mode
        ELSE IF current_reading.valid /\ current_reading.message # ""
             THEN STATE_MESSAGE_DISPLAY
        ELSE um


\* evaluate_state() with the forced-state test placed before the no-data
\* and staleness tests.
evaluate_state_forced_first(um) ==
    LET stale_ms == config.stale_timeout_min * 60 * 1000
        elapsed  == USub(now, boot_start_ms)
        failures == failure_count
        age      == http_time_since_last_reading
    IN  IF elapsed < BOOT_SPLASH_MS THEN STATE_BOOT
        ELSE IF ~wifi_connected /\ config_has_wifi THEN STATE_NO_WIFI
        ELSE IF ~config_has_server /\ ~config_has_wifi THEN STATE_NO_CFG
        ELSE IF config.notify_enabled /\ notify_has_active
             THEN STATE_NOTIFY_DISPLAY
        ELSE IF state_forced THEN forced_state
        ELSE IF /\ (failures >= FAILURE_NODATA_COUNT \/ ~ever_received)
                /\ config_has_server
                /\ elapsed > NODATA_GRACE_MS
             THEN STATE_NO_DATA
        ELSE IF age >= stale_ms \/ failures >= FAILURE_STALE_COUNT
             THEN STATE_STALE_WARNING
        ELSE IF current_reading.valid /\ current_reading.force_mode >= 0
             THEN current_reading.force_mode
        ELSE IF current_reading.valid /\ current_reading.message # ""
             THEN STATE_MESSAGE_DISPLAY
        ELSE um


\* evaluate_state(), with um the user_mode it reads.
evaluate_state(um) ==
    LET stale_ms == config.stale_timeout_min * 60 * 1000
        elapsed  == USub(now, boot_start_ms)
        failures == failure_count
        age      == http_time_since_last_reading
    IN  IF elapsed < BOOT_SPLASH_MS THEN STATE_BOOT
        ELSE IF ~wifi_connected /\ config_has_wifi THEN STATE_NO_WIFI
        ELSE IF ~config_has_server /\ ~config_has_wifi THEN STATE_NO_CFG
        ELSE IF config.notify_enabled /\ notify_has_active
             THEN STATE_NOTIFY_DISPLAY
        ELSE IF /\ (failures >= FAILURE_NODATA_COUNT \/ ~ever_received)
                /\ config_has_server
                /\ elapsed > NODATA_GRACE_MS
             THEN STATE_NO_DATA
        ELSE IF age >= stale_ms \/ failures >= FAILURE_STALE_COUNT
             THEN STATE_STALE_WARNING
        ELSE IF state_forced THEN forced_state
        ELSE IF current_reading.valid /\ current_reading.force_mode >= 0
             THEN current_reading.force_mode
        ELSE IF current_reading.valid /\ current_reading.message # ""
             THEN STATE_MESSAGE_DISPLAY
        ELSE um

\* Whether evaluate_state() copies the reading's message to message_buf.
evaluate_copies_message(um) ==
    /\ evaluate_state(um) = STATE_MESSAGE_DISPLAY
    /\ ~state_forced
    /\ ~(current_reading.valid /\ current_reading.force_mode >= 0)
    /\ current_reading.valid /\ current_reading.message # ""

\* render_state(state): the colour of the glucose-themed glyphs of the
\* frame as a one-element sequence, or <<>> when the frame has none.
render_color(state) ==
    IF /\ state = STATE_GLUCOSE_DISPLAY
       /\ current_reading.valid
    THEN <<themed_glucose_color(current_reading.glucose, config)>>
    ELSE IF /\ state = STATE_TREND_DISPLAY
            /\ current_reading.valid
            /\ current_reading.trend # TREND_UNKNOWN
    THEN <<themed_glucose_color(current_reading.glucose, config)>>
    ELSE <<>>


(***************************************************************************)
(* glucose_engine: the operations.                                         *)
(***************************************************************************)
\* The user mode was never changed.
nav_log_none ==
    [manual_ms |-> -1, auto_ms |-> -1]

\* engine_snooze_alerts() was not called.
snooze_log_none ==
    [at |-> -1, min |-> 0]

\* No run of engine_toggle_mode() calls is in progress.
toggle_run_none ==
    [mode |-> STATE_BOOT, calls |-> 0]

\* engine_rebuild_toggle_order() under record cfg: the order and the index.
engine_rebuild_toggle_order(cfg) ==
    /\ toggle_order' = build_toggle_order(cfg)
    /\ toggle_index' = toggle_index_of(build_toggle_order(cfg), user_mode)
    /\ toggle_run' = toggle_run_none

\* engine_force_state(state).
engine_force_state(state) ==
    /\ forced_state' = state
    /\ state_forced' = TRUE
    /\ force_req' = <<state>>

\* engine_clear_force() leaving the flag as it is.
engine_clear_force_keeps_flag ==
    /\ state_forced' = state_forced
    /\ force_req' = <<>>
    /\ UNCHANGED forced_state

\* engine_clear_force().
engine_clear_force ==
    /\ state_forced' = FALSE
    /\ force_req' = <<>>
    /\ UNCHANGED forced_state

\* engine_set_default_mode(mode).  It is a manual change of the user mode
\* when the mode differs from the one shown.
engine_set_default_mode(mode) ==
    /\ default_mode' = mode
    /\ user_mode' = mode
    /\ toggle_run' = toggle_run_none
    /\ nav_log' = IF mode # user_mode
                  THEN [nav_log EXCEPT !.manual_ms = now] ELSE nav_log

\* engine_toggle_mode(): the next mode of the toggle order.  toggle_run
\* counts the calls of a run up to toggle_count, and remembers the mode the
\* run started from.
engine_toggle_mode ==
    /\ toggle_index' = (toggle_index + 1) % Len(toggle_order)
    /\ user_mode' = toggle_at(toggle_order, toggle_index')
    /\ last_cycle_ms' = now
    /\ toggle_run' =
           IF toggle_run.calls = 0 \/ toggle_run.calls >= Len(toggle_order)
           THEN [mode |-> user_mode, calls |-> 1]
           ELSE [toggle_run EXCEPT !.calls = @ + 1]
    /\ nav_log' = [nav_log EXCEPT !.manual_ms = now]
    /\ UNCHANGED <<current_state, forced_state, state_forced, default_mode,
                   boot_start_ms, last_render_ms, last_rebuild_ms,
                   toggle_order, message_buf, drawn_color, force_req,
                   alert_vars>>

\* engine_toggle_mode_prev(): the previous mode of the toggle order.
engine_toggle_mode_prev ==
    /\ toggle_index' =
           (toggle_index - 1 + Len(toggle_order)) % Len(toggle_order)
    /\ user_mode' = toggle_at(toggle_order, toggle_index')
    /\ last_cycle_ms' = now
    /\ toggle_run' = toggle_run_none
    /\ nav_log' = [nav_log EXCEPT !.manual_ms = now]
    /\ UNCHANGED <<current_state, forced_state, state_forced, default_mode,
                   boot_start_ms, last_render_ms, last_rebuild_ms,
                   toggle_order, message_buf, drawn_color, force_req,
                   alert_vars>>

\* engine_snooze_alerts().
engine_snooze_alerts ==
    /\ alert_snooze_until_ms' = UAdd(now, config.alert_snooze_min * 60000)
    /\ snooze_log' = [at |-> now, min |-> config.alert_snooze_min]
    /\ UNCHANGED <<current_state, forced_state, state_forced, default_mode,
                   user_mode, boot_start_ms, last_render_ms, last_rebuild_ms,
                   toggle_order, toggle_index, last_cycle_ms, message_buf,
                   drawn_color, force_req, toggle_run, nav_log,
                   last_beep_ms, alert_log>>

BEEP_INTERVAL_MS ==
    10000

\* No burst of check_alerts() yet.
alert_log_none ==
    [last |-> -1, prev |-> -1]

\* Whether check_alerts() beeps on this pass, the last beep recent or not.
alert_due_every_pass ==
    /\ config.alert_enabled
    /\ current_reading.valid
    /\ ~(now < alert_snooze_until_ms)
    /\ \/ current_reading.glucose < config.alert_low
       \/ current_reading.glucose > config.alert_high

\* Whether check_alerts() beeps on this pass.
alert_due ==
    /\ config.alert_enabled
    /\ current_reading.valid
    /\ ~(now < alert_snooze_until_ms)
    /\ \/ current_reading.glucose < config.alert_low
       \/ current_reading.glucose > config.alert_high
    /\ USub(now, last_beep_ms) >= BEEP_INTERVAL_MS

\* check_alerts().
check_alerts ==
    IF alert_due
    THEN /\ last_beep_ms' = now
         /\ alert_log' = [last |-> now, prev |-> alert_log.last]
         /\ buzzer_beep(1, 2000, 200)
         /\ UNCHANGED <<alert_snooze_until_ms, snooze_log>>
    ELSE UNCHANGED <<alert_vars, buzzer_vars>>

\* The long-press reset of loop() (BTN_LEFT_LONG) and the default case of
\* engine_right_long_action(): engine_clear_force() and then
\* engine_set_default_mode(STATE_GLUCOSE_DISPLAY).
engine_clear_overrides ==
    /\ engine_clear_force
    /\ engine_set_default_mode(STATE_GLUCOSE_DISPLAY)
    /\ UNCHANGED <<current_state, boot_start_ms, last_render_ms,
                   last_rebuild_ms, toggle_order, toggle_index,
                   last_cycle_ms, message_buf, drawn_color, alert_vars>>

\* engine_right_button_action(): on the timer and stopwatch screens the
\* button drives the timer; elsewhere it navigates backwards.
engine_right_button_action ==
    IF user_mode \in {STATE_TIMER_DISPLAY, STATE_STOPWATCH_DISPLAY}
    THEN UNCHANGED engine_vars
    ELSE engine_toggle_mode_prev

\* engine_right_long_action().
engine_right_long_action ==
    IF user_mode \in {STATE_TIMER_DISPLAY, STATE_STOPWATCH_DISPLAY}
    THEN UNCHANGED engine_vars
    ELSE engine_clear_overrides

\* Arduino's map(x, in_min, in_max, out_min, out_max), for x >= in_min.
map(x, in_min, in_max, out_min, out_max) ==
    ((x - in_min) * (out_max - out_min)) \div (in_max - in_min) + out_min

BRIGHTNESS_MIN ==
    5

BRIGHTNESS_MAX ==
    200

\* sensors_get_auto_brightness().
sensors_get_auto_brightness ==
    constrain(map(ldr_smoothed, 0, 4095, BRIGHTNESS_MIN, BRIGHTNESS_MAX),
              BRIGHTNESS_MIN, BRIGHTNESS_MAX)

\* is_night_mode().
is_night_mode ==
    /\ config.night_mode_enabled
    /\ time_available
    /\ IF config.night_start_hour > config.night_end_hour
       THEN \/ time_hour >= config.night_start_hour
            \/ time_hour < config.night_end_hour
       ELSE /\ time_hour >= config.night_start_hour
            /\ time_hour < config.night_end_hour

\* effective_brightness().
effective_brightness ==
    IF is_night_mode THEN config.night_brightness ELSE config.brightness

\* The brightness render_state(state) leaves set: the content screens call
\* display_set_brightness(), the glucose screen with a third of the value
\* while the reading is in its stale warning; the other screens, and the
\* glucose screen without a valid reading, draw at the brightness in force.
render_brightness(state) ==
    LET age == http_time_since_last_reading
        stale_warning == /\ age >= STALE_WARNING_MS
                         /\ age < config.stale_timeout_min * 60000
    IN  CASE state = STATE_GLUCOSE_DISPLAY ->
                 IF ~current_reading.valid THEN current_brightness
                 ELSE IF stale_warning THEN effective_brightness \div 3
                 ELSE effective_brightness
          [] state \in {STATE_TIME_DISPLAY, STATE_WEATHER_DISPLAY,
                        STATE_TIMER_DISPLAY, STATE_STOPWATCH_DISPLAY,
                        STATE_SYSMON_DISPLAY, STATE_COUNTDOWN_DISPLAY,
                        STATE_TREND_DISPLAY, STATE_NOTIFY_DISPLAY} ->
                 effective_brightness
          [] OTHER -> current_brightness

\* engine_loop(): the throttle, the periodic rebuild of the toggle order,
\* the auto-cycle, evaluate_state(), render_state() and check_alerts().
engine_loop ==
    IF USub(now, last_render_ms) < RENDER_INTERVAL_MS
    THEN UNCHANGED <<engine_vars, buzzer_vars, current_brightness>>
    ELSE LET rebuild   == USub(now, last_rebuild_ms) > REBUILD_INTERVAL_MS
             order1    == IF rebuild THEN build_toggle_order(config)
                          ELSE toggle_order
             index1    == IF rebuild THEN toggle_index_of(order1, user_mode)
                          ELSE toggle_index
             cycling   == config.auto_cycle_enabled /\ Len(order1) > 1
             cycle0    == IF cycling /\ last_cycle_ms = 0 THEN now
                          ELSE last_cycle_ms
             advance   == /\ cycling
                          /\ USub(now, cycle0) >= config.auto_cycle_sec * 1000
             index2    == IF advance THEN (index1 + 1) % Len(order1)
                          ELSE index1
             um2       == IF advance THEN toggle_at(order1, index2)
                          ELSE user_mode
             new_state == evaluate_state(um2)
         IN  /\ last_render_ms' = now
             /\ last_rebuild_ms' = IF rebuild THEN now ELSE last_rebuild_ms
             /\ toggle_order' = order1
             /\ toggle_index' = index2
             /\ last_cycle_ms' = IF advance THEN now ELSE cycle0
             /\ user_mode' = um2
             /\ current_state' = new_state
             /\ message_buf' = IF evaluate_copies_message(um2)
                               THEN current_reading.message ELSE message_buf
             /\ current_brightness' = render_brightness(new_state)
             /\ drawn_color' = IF new_state \in DisplayState
                               THEN render_color(new_state) ELSE drawn_color
             /\ toggle_run' = IF rebuild \/ advance THEN toggle_run_none
                               ELSE toggle_run
             /\ nav_log' = IF advance THEN [nav_log EXCEPT !.auto_ms = now]
                            ELSE nav_log
             /\ check_alerts
             /\ UNCHANGED <<forced_state, state_forced, default_mode,
                            boot_start_ms, force_req>>


(***************************************************************************)
(* The inputs of the model.                                                *)
(***************************************************************************)
\* The outcomes of one poll of the custom JSON endpoint: the failures, a
\* document without a usable glucose value, and valid readings with and
\* without a server override and a message.
GenericOutcomes ==
    {[kind |-> k] : k \in {"begin_fail", "http_error", "parse_error"}}
    \cup
    {[kind |-> "json", glucose |-> 0, trend |-> <<>>, message |-> "",
      force_mode |-> -1]}
    \cup
    {[kind |-> "json", glucose |-> 120, trend |-> Label.Flat,
      message |-> mf[1], force_mode |-> mf[2]] :
        mf \in {<<"", -1>>, <<"LOW BATT", -1>>, <<"", STATE_NO_DATA>>,
                <<"LOW BATT", STATE_TIME_DISPLAY>>, <<"", 99>>}}

\* The outcomes of one poll of Dexcom Share.
DexcomOutcomes ==
    {[kind |-> k] :
        k \in {"login_fail", "begin_fail", "http_error", "http_500",
               "parse_error", "empty"}}
    \cup
    {[kind |-> "json", glucose |-> g, trend_kind |-> "int", trend_num |-> 4,
      trend |-> <<>>] : g \in {0, 120}}

\* The outcomes of the poll http_loop() makes under the configured source.
PollOutcomes ==
    IF config.data_source = 1 THEN DexcomOutcomes ELSE GenericOutcomes

\* The JSON documents posted to /api/config.
ConfigDocs ==
    { [server_url |-> "https://example.org/bg"],
      [wifi_ssid |-> ""],
      [notify_enabled |-> FALSE] }

\* The configurations config_init() loads at boot: the factory defaults of
\* a first boot, and a stored one with a JSON endpoint.
StoredConfigs ==
    { config_set_defaults,
      [config_set_defaults EXCEPT !.server_url = "https://example.org/bg"] }

\* Button events loop() reads from buttons_get_event().
ButtonEvents ==
    {"BTN_NONE", "BTN_LEFT_SHORT", "BTN_RIGHT_SHORT", "BTN_LEFT_LONG",
     "BTN_RIGHT_LONG"}

(***************************************************************************)
(* The main loop: loop() runs its components in order, once per instant.   *)
(***************************************************************************)
\* http_loop(), with o the outcome of the poll when one is made, and
\* next the component loop() runs after it.
http_loop_blocking(o, next, ms) ==
    /\ pc = "http"
    /\ pc' = next
    /\ IF http_poll_due
       THEN /\ failure_count < MaxFailures
            /\ last_poll_ms' = now
            /\ IF config.data_source = 1
               THEN dexcom_fetch_glucose(o)
               ELSE /\ generic_fetch(o)
                    /\ UNCHANGED <<dexcom_session_id, dexcom_session_time_ms>>
       ELSE UNCHANGED http_vars
    /\ blocked_ms' = blocked_ms + (IF http_poll_due THEN ms ELSE 0)
    /\ UNCHANGED <<render_vars, button_vars, timer_vars, race_vars>>
    /\ UNCHANGED <<now, web_calls, config, prefs, wifi_connected, notifications,
                   sysmon_last_push_ms, engine_vars, buzzer_vars>>
    /\ UNCHANGED <<display_vars, net_vars>>

\* http_loop() with the time its requests take left out of account.
http_loop_then(o, next) ==
    http_loop_blocking(o, next, 0)

\* http_loop() in the loop of the glucose components alone.
http_loop(o) ==
    http_loop_then(o, "buttons")

\* The brightness the middle button steps to: 10 -> 40 -> 100 -> 200 -> 10.
next_brightness(b) ==
    IF b < 20 THEN 40 ELSE IF b < 60 THEN 100 ELSE IF b < 150 THEN 200 ELSE 10

\* The button dispatch of loop() for event evt, and the automatic
\* brightness loop() applies after it from the light sensor.
loop_buttons_dispatch(evt) ==
    /\ pc = "buttons"
    /\ pc' = "buzzer"
    /\ CASE evt = "BTN_LEFT_SHORT"  -> engine_toggle_mode
         [] evt = "BTN_MIDDLE_LONG" -> engine_snooze_alerts
         [] evt = "BTN_RIGHT_SHORT" -> engine_right_button_action
         [] evt = "BTN_LEFT_LONG"   -> engine_clear_overrides
         [] evt = "BTN_RIGHT_LONG"  -> engine_right_long_action
         [] OTHER                   -> UNCHANGED engine_vars
    /\ config' = IF evt = "BTN_MIDDLE_SHORT"
                 THEN [config EXCEPT
                          !.brightness = next_brightness(config.brightness),
                          !.auto_brightness = FALSE]
                 ELSE config
    /\ prefs' = IF evt = "BTN_MIDDLE_SHORT" THEN config_save(config')
                ELSE prefs
    /\ current_brightness' =
          IF config'.auto_brightness THEN sensors_get_auto_brightness
          ELSE IF evt = "BTN_MIDDLE_SHORT" THEN config'.brightness
          ELSE current_brightness
    /\ UNCHANGED <<now, web_calls, wifi_connected, http_vars,
                   notifications, sysmon_last_push_ms, buzzer_vars,
                   ldr_smoothed, time_available, time_hour,
                   net_vars>>

\* The button dispatch for an event given, the pins left out of account.
loop_buttons(evt) ==
    /\ loop_buttons_dispatch(evt)
    /\ UNCHANGED side_vars

\* buzzer_loop(), the first of the feature loops of loop().
loop_buzzer ==
    /\ pc = "buzzer"
    /\ pc' = "notify"
    /\ buzzer_loop
    /\ UNCHANGED <<now, web_calls, config, prefs, wifi_connected, http_vars,
                   notifications, sysmon_last_push_ms, engine_vars>>
    /\ UNCHANGED <<display_vars, net_vars, side_vars>>

\* notify_loop() releasing nothing.
notify_loop_no_expiry ==
    /\ pc = "notify"
    /\ pc' = "engine"
    /\ UNCHANGED <<now, web_calls, config, prefs, wifi_connected, http_vars,
                   notifications, sysmon_last_push_ms, engine_vars,
                   buzzer_vars, display_vars, net_vars, side_vars>>

\* notify_loop().
notify_loop ==
    /\ pc = "notify"
    /\ pc' = "engine"
    /\ notifications' = notify_expired
    /\ UNCHANGED <<now, web_calls, config, prefs, wifi_connected, http_vars,
                   sysmon_last_push_ms, engine_vars, buzzer_vars>>
    /\ UNCHANGED <<display_vars, net_vars, side_vars>>

\* engine_loop(), the last component of loop().
loop_engine ==
    /\ pc = "engine"
    /\ pc' = "end"
    /\ engine_loop
    /\ UNCHANGED <<now, web_calls, config, prefs, wifi_connected, http_vars,
                   notifications, sysmon_last_push_ms, ldr_smoothed,
                   time_available, time_hour,
                   net_vars, side_vars>>

\* The next pass of loop() starts at the next instant of the clock, the
\* instants being those of set S.
advance_time_to(S, first) ==
    /\ pc = "end"
    /\ \E t \in S :
          /\ t > now
          /\ \A u \in S : u > now => t <= u
          /\ now' = t
    /\ pc' = first
    /\ UNCHANGED <<web_calls, config, prefs, wifi_connected, http_vars,
                   notifications, sysmon_last_push_ms, engine_vars, buzzer_vars>>
    /\ UNCHANGED <<display_vars, net_vars, side_vars>>

\* The next pass in the loop of the glucose components alone.
advance_time(S) ==
    advance_time_to(S, "http")

(***************************************************************************)
(* The environment and the asynchronous web handlers.                      *)
(***************************************************************************)
\* The WiFi link comes up or goes down.
wifi_status_change ==
    /\ wifi_connected' = ~wifi_connected
    /\ UNCHANGED <<now, pc, web_calls, config, prefs, http_vars, notifications,
                   sysmon_last_push_ms, engine_vars, buzzer_vars>>
    /\ UNCHANGED <<display_vars, net_vars, side_vars>>

\* The body of handle_post_config for document doc: the fields stored, then
\* config_save(), engine_rebuild_toggle_order() and the brightness applied.
post_config(doc) ==
    /\ config' = config_after_post(doc)
    /\ prefs' = config_save(config')
    /\ engine_rebuild_toggle_order(config')
    /\ current_brightness' = IF ~config'.auto_brightness
                             THEN config'.brightness ELSE current_brightness
    /\ UNCHANGED <<now, pc, wifi_connected, http_vars, notifications,
                   sysmon_last_push_ms, current_state, forced_state,
                   state_forced, default_mode, user_mode, boot_start_ms,
                   last_render_ms, last_rebuild_ms, last_cycle_ms,
                   message_buf, drawn_color, force_req, nav_log,
                   alert_vars, buzzer_vars, ldr_smoothed,
                   time_available, time_hour,
                   net_vars, side_vars>>

\* handle_post_config: POST /api/config with document doc.
handle_post_config(doc) ==
    /\ web_calls < MaxWebCalls
    /\ web_calls' = web_calls + 1
    /\ post_config(doc)

\* The body of handle_post_notify for a document with the text, the
\* duration and the urgency given: refused when notifications are disabled.
post_notify(text, duration_sec, urgent) ==
    /\ IF config.notify_enabled
       THEN /\ notifications' = notify_push(text, duration_sec, urgent)
            /\ notify_push_buzzer(urgent)
       ELSE UNCHANGED <<notifications, buzzer_vars>>
    /\ UNCHANGED <<now, pc, config, prefs, wifi_connected, http_vars,
                   sysmon_last_push_ms, engine_vars>>
    /\ UNCHANGED <<display_vars, net_vars, side_vars>>

\* handle_post_notify: POST /api/notify with a document that leaves the
\* duration to the configured default.
handle_post_notify(text, urgent) ==
    /\ web_calls < MaxWebCalls
    /\ web_calls' = web_calls + 1
    /\ post_notify(text, config.notify_default_duration, urgent)

\* handle_test_weather_mock: POST /api/test/weather-mock enables weather,
\* rebuilds the toggle order and forces the weather screen.
handle_test_weather_mock ==
    /\ web_calls < MaxWebCalls
    /\ web_calls' = web_calls + 1
    /\ config' = [config EXCEPT !.weather_enabled = TRUE]
    /\ UNCHANGED prefs
    /\ engine_rebuild_toggle_order(config')
    /\ engine_force_state(STATE_WEATHER_DISPLAY)
    /\ UNCHANGED <<now, pc, wifi_connected, http_vars, notifications,
                   sysmon_last_push_ms, current_state, default_mode,
                   user_mode, boot_start_ms, last_render_ms, last_rebuild_ms,
                   last_cycle_ms, message_buf, drawn_color, nav_log,
                   alert_vars, buzzer_vars>>
    /\ UNCHANGED <<display_vars, net_vars, side_vars>>

\* handle_display_next: POST /api/display/next.
handle_display_next ==
    /\ web_calls < MaxWebCalls
    /\ web_calls' = web_calls + 1
    /\ engine_toggle_mode
    /\ UNCHANGED <<now, pc, config, prefs, wifi_connected, http_vars, notifications,
                   sysmon_last_push_ms, buzzer_vars>>
    /\ UNCHANGED <<display_vars, net_vars, side_vars>>

\* handle_display_prev: POST /api/display/prev.
handle_display_prev ==
    /\ web_calls < MaxWebCalls
    /\ web_calls' = web_calls + 1
    /\ engine_toggle_mode_prev
    /\ UNCHANGED <<now, pc, config, prefs, wifi_connected, http_vars, notifications,
                   sysmon_last_push_ms, buzzer_vars>>
    /\ UNCHANGED <<display_vars, net_vars, side_vars>>

\* handle_post_sysmon: POST /api/sysmon; refused when the system monitor is
\* disabled.
handle_post_sysmon ==
    /\ web_calls < MaxWebCalls
    /\ web_calls' = web_calls + 1
    /\ sysmon_last_push_ms' =
          IF config.sysmon_enabled THEN now ELSE sysmon_last_push_ms
    /\ UNCHANGED <<now, pc, config, prefs, wifi_connected, http_vars, notifications,
                   engine_vars, buzzer_vars>>
    /\ UNCHANGED <<display_vars, net_vars, side_vars>>

(***************************************************************************)
(* The state after setup(): config_init() on a first boot, http_init(),    *)
(* notify_init(), sysmon_init() and engine_init().                         *)
(***************************************************************************)
\* http_init().
http_init ==
    /\ current_reading =
           [ glucose |-> 0, trend |-> 0, message |-> "", force_mode |-> -1,
             received_at_ms |-> 0, valid |-> FALSE ]
    /\ failure_count = 0
    /\ ever_received = FALSE
    /\ last_poll_ms = 0
    /\ last_success_ms = 0
    /\ prev_glucose = 0
    /\ current_delta = 0
    /\ has_prev_reading = FALSE
    /\ dexcom_session_id = ""
    /\ dexcom_session_time_ms = 0
    /\ history_buf = history_buf_zero
    /\ history_write_idx = 0
    /\ history_count = 0
    /\ accepted = <<>>
    /\ trend_in = trend_in_none
    /\ recorded = <<>>

\* notify_init().
notify_init ==
    notifications =
        [i \in Slots |->
            [text |-> "", expire_ms |-> 0, urgent |-> FALSE, active |-> FALSE]]

\* The mode engine_init() starts in for the configured default_mode.
engine_init_mode(cfg) ==
    IF cfg.default_mode = 2 THEN STATE_WEATHER_DISPLAY
    ELSE IF cfg.default_mode = 1 THEN STATE_TIME_DISPLAY
    ELSE STATE_GLUCOSE_DISPLAY

\* engine_init().
engine_init ==
    /\ current_state = STATE_BOOT
    /\ boot_start_ms = now
    /\ default_mode = engine_init_mode(config)
    /\ user_mode = engine_init_mode(config)
    /\ toggle_order = build_toggle_order(config)
    /\ toggle_index = toggle_index_of(toggle_order, user_mode)
    /\ forced_state = STATE_BOOT
    /\ state_forced = FALSE
    /\ last_render_ms = 0
    /\ last_rebuild_ms = 0
    /\ last_cycle_ms = 0
    /\ message_buf = ""
    /\ drawn_color = <<>>
    /\ force_req = <<>>
    /\ toggle_run = toggle_run_none
    /\ nav_log = nav_log_none
    /\ alert_snooze_until_ms = 0
    /\ last_beep_ms = 0
    /\ alert_log = alert_log_none
    /\ snooze_log = snooze_log_none

\* display_init() and the static state of the sensors, before the clock
\* is set.
display_init ==
    /\ current_brightness = 40
    /\ ldr_smoothed = 2048
    /\ time_available = FALSE
    /\ time_hour = -1

\* wifi_init(): without credentials the access point of the setup is
\* started, with credentials the first connection attempt.
wifi_init ==
    /\ ap_mode = ~config_has_wifi
    /\ connecting = config_has_wifi
    /\ was_connected = FALSE
    /\ last_attempt_ms = (IF config_has_wifi THEN now ELSE 0)

\* weather_init().
weather_init ==
    weather_last_poll_ms = 0

\* enum TimerState (timer_engine.h).
TIMER_IDLE ==
    0
TIMER_RUNNING ==
    1
TIMER_PAUSED ==
    2
TIMER_BREAK ==
    3
TIMER_LONG_BREAK ==
    4
TIMER_DONE ==
    5

timer_log_none ==
    [paused_phase |-> TIMER_IDLE, works_done |-> 0, paused |-> FALSE]

\* timer_init() and the static initialisers of timer_engine.cpp.
timer_init ==
    /\ timer_state = TIMER_IDLE
    /\ timer_start_ms = 0
    /\ timer_paused_remaining_ms = 0
    /\ timer_current_session = 1
    /\ timer_duration_ms = 0
    /\ timer_log = timer_log_none

\* The two tasks that run the engine's code: loop() on the Arduino loop
\* task, and the request handlers on the task of the asynchronous server.
Tasks ==
    {"loop", "web"}

\* A task that is inside none of the engine's functions.
task_idle ==
    [op |-> "idle", at |-> 0]

race_log_none ==
    [div_zero |-> FALSE, past_count |-> FALSE]

\* The components outside the glucose display as setup() leaves them.
side_init ==
    /\ blocked_ms = 0
    /\ last_seen_glucose = 0
    /\ delta_flash_start_ms = 0
    /\ delta_flash_active = FALSE
    /\ drawn = [text |-> "SUGAR", indicator |-> FALSE]
    /\ buttons = [i \in 0..2 |->
                     [last_raw |-> TRUE, pressed |-> FALSE, debounce_time |-> 0,
                      press_start |-> 0, long_fired |-> FALSE]]
    /\ raw = [i \in 0..2 |-> TRUE]
    /\ last_event = "BTN_NONE"
    /\ timer_init
    /\ toggle_tail = <<>>
    /\ task = [t \in Tasks |-> task_idle]
    /\ race_log = race_log_none

net_init ==
    /\ wifi_init
    /\ weather_init

\* buzzer_init(), and the static state of the sequencer.
buzzer_init ==
    /\ initialized = TRUE
    /\ beeps_remaining = 0
    /\ beep_freq = 2000
    /\ beep_duration_ms = 200
    /\ beep_start_ms = 0
    /\ beep_on = FALSE
    /\ buzzer_log = buzzer_log_none

Init ==
    /\ now = SETUP_DELAY_MS
    /\ pc = "http"
    /\ web_calls = 0
    /\ config \in StoredConfigs
    /\ prefs = config_save(config)
    /\ wifi_connected = FALSE
    /\ sysmon_last_push_ms = 0
    /\ http_init
    /\ notify_init
    /\ buzzer_init
    /\ net_init
    /\ side_init
    /\ display_init
    /\ engine_init

Next ==
    \/ \E o \in PollOutcomes : http_loop(o)
    \/ \E evt \in ButtonEvents : loop_buttons(evt)
    \/ loop_buzzer
    \/ notify_loop
    \/ loop_engine
    \/ advance_time(Instants)
    \/ wifi_status_change
    \/ \E doc \in ConfigDocs : handle_post_config(doc)
    \/ handle_post_notify("HELLO", FALSE)
    \/ handle_test_weather_mock
    \/ handle_display_next
    \/ handle_display_prev

Spec ==
    Init /\ [][Next]_vars


(***************************************************************************)
(* State selection on a running device.  evaluate_state() reads the clock, *)
(* the link, the configuration, the notification pool, the fetch           *)
(* bookkeeping, the override and the user mode, and nothing of its own     *)
(* past; SpecEval starts engine_loop() in each combination of them that a  *)
(* running device can be in and lets it select.                            *)
(***************************************************************************)
\* The time since engine_init() at which the pass runs: just inside and
\* just outside the splash window, on and just past the end of the grace
\* period, and 25 and 30 minutes after boot.
EvalElapsed ==
    {BOOT_SPLASH_MS - 1, BOOT_SPLASH_MS, NODATA_GRACE_MS, NODATA_GRACE_MS + 1,
     25 * 60000, 30 * 60000}

\* The stored configurations: the defaults (WiFi, no data source), with a
\* JSON endpoint, an endpoint and no WiFi credentials, neither, an endpoint
\* with notifications disabled, and an endpoint with a 5 minute timeout.
EvalConfigs ==
    LET url == "https://example.org/bg"
    IN  { config_set_defaults,
          [config_set_defaults EXCEPT !.server_url = url],
          [config_set_defaults EXCEPT !.server_url = url, !.wifi_ssid = ""],
          [config_set_defaults EXCEPT !.wifi_ssid = ""],
          [config_set_defaults EXCEPT !.server_url = url,
                                      !.notify_enabled = FALSE],
          [config_set_defaults EXCEPT !.server_url = url,
                                      !.stale_timeout_min = 5] }

\* The ages of the last accepted reading: 1 s, exactly 5 minutes, 1 ms less
\* than and exactly 20 minutes, and 25 minutes.
EvalAges ==
    {1000, 5 * 60000, 20 * 60000 - 1, 20 * 60000, 25 * 60000}

\* The failure counts: none, one, and either side of the two limits.
EvalFailures ==
    {0, 1, FAILURE_STALE_COUNT - 1, FAILURE_STALE_COUNT,
     FAILURE_NODATA_COUNT - 1, FAILURE_NODATA_COUNT}

\* What the slot of an accepted reading carries besides the value: a
\* message and a force_mode.
EvalCarried ==
    {<<"", -1>>, <<"LOW BATT", -1>>, <<"", STATE_TIME_DISPLAY>>,
     <<"LOW BATT", STATE_TIME_DISPLAY>>, <<"", STATE_NO_DATA>>}

\* The slot an answer without a usable glucose value leaves behind.
EvalInvalidSlots ==
    {[glucose |-> 0, trend |-> TREND_UNKNOWN, message |-> mf[1],
      force_mode |-> mf[2], received_at_ms |-> now, valid |-> FALSE] :
        mf \in {<<"", -1>>, <<"LOW BATT", STATE_TIME_DISPLAY>>}}

\* The fetch bookkeeping of a device that never accepted a reading after k
\* failed polls: the polls are an interval apart, the first one at boot at
\* the earliest.
never_received(k) ==
    /\ USub(now, SETUP_DELAY_MS) >= (k - 1) * poll_interval_ms
    /\ failure_count = k
    /\ ever_received = FALSE
    /\ last_success_ms = 0
    /\ last_poll_ms = (IF k = 0 THEN 0 ELSE now)
    /\ prev_glucose = 0
    /\ current_delta = 0
    /\ has_prev_reading = FALSE
    /\ history_buf = history_buf_zero
    /\ history_write_idx = 0
    /\ history_count = 0
    /\ accepted = <<>>
    /\ trend_in = trend_in_none
    /\ recorded = <<>>
    /\ current_reading \in
          {[glucose |-> 0, trend |-> 0, message |-> "", force_mode |-> -1,
            received_at_ms |-> 0, valid |-> FALSE]}
          \cup (IF k = 0 THEN {} ELSE EvalInvalidSlots)

\* The fetch bookkeeping of a device whose last accepted reading, of value
\* v, is age ms old and was followed by k failed polls, an interval apart.
last_received(v, age, k) ==
    /\ age >= k * poll_interval_ms
    /\ now >= SETUP_DELAY_MS + age
    /\ failure_count = k
    /\ ever_received = TRUE
    /\ last_success_ms = now - age
    /\ last_poll_ms = (IF k = 0 THEN now - age ELSE now)
    /\ prev_glucose = v
    /\ current_delta = 0
    /\ has_prev_reading = TRUE
    /\ history_buf =
          [history_buf_zero EXCEPT ![0] = HistoryEntry(v, 0, now - age)]
    /\ history_write_idx = 1
    /\ history_count = 1
    /\ accepted = <<v>>
    /\ trend_in = [kind |-> "str", num |-> 0, label |-> Label.Flat]
    /\ recorded = <<HistoryEntry(v, 0, now - age)>>
    /\ current_reading \in
          {[glucose |-> v, trend |-> TREND_FLAT, message |-> mf[1],
            force_mode |-> mf[2], received_at_ms |-> now - age,
            valid |-> TRUE] : mf \in EvalCarried}
          \cup (IF k = 0 THEN {} ELSE EvalInvalidSlots)

\* The engine of a device booted at SETUP_DELAY_MS whose previous pass ran
\* RENDER_INTERVAL_MS ago, showing user mode um.
engine_running(um) ==
    /\ boot_start_ms = SETUP_DELAY_MS
    /\ default_mode = STATE_GLUCOSE_DISPLAY
    /\ user_mode = um
    /\ toggle_order = build_toggle_order(config)
    /\ toggle_index = toggle_index_of(toggle_order, um)
    /\ last_render_ms = now - RENDER_INTERVAL_MS
    /\ last_rebuild_ms = now - RENDER_INTERVAL_MS
    /\ last_cycle_ms = now - RENDER_INTERVAL_MS
    /\ current_state =
          (IF USub(now, boot_start_ms) - RENDER_INTERVAL_MS < BOOT_SPLASH_MS
           THEN STATE_BOOT ELSE evaluate_state(um))
    /\ message_buf =
          (IF evaluate_copies_message(um) THEN current_reading.message
           ELSE "")
    /\ drawn_color =
          (IF current_state \in DisplayState THEN render_color(current_state)
           ELSE <<>>)
    /\ toggle_run = toggle_run_none
    /\ nav_log = nav_log_none
    /\ alert_snooze_until_ms = 0
    /\ last_beep_ms = 0
    /\ alert_log = alert_log_none
    /\ snooze_log = snooze_log_none

\* The pool with one notification pending, or none.
one_notification(pending) ==
    notifications =
        [i \in Slots |->
            IF pending /\ i = 0
            THEN [text |-> "HELLO", expire_ms |-> UAdd(now, 60000),
                  urgent |-> FALSE, active |-> TRUE]
            ELSE [text |-> "", expire_ms |-> 0, urgent |-> FALSE,
                  active |-> FALSE]]

\* The override of handle_test_weather_mock, set or not.
override(set) ==
    /\ state_forced = set
    /\ forced_state = (IF set THEN STATE_WEATHER_DISPLAY ELSE STATE_BOOT)
    /\ force_req = (IF set THEN <<STATE_WEATHER_DISPLAY>> ELSE <<>>)

InitEval ==
    /\ pc = "engine"
    /\ web_calls = 0
    /\ now \in {SETUP_DELAY_MS + e : e \in EvalElapsed}
    /\ config \in EvalConfigs
    /\ prefs = config_save(config)
    /\ wifi_connected \in BOOLEAN
    /\ sysmon_last_push_ms = 0
    /\ dexcom_session_id = ""
    /\ dexcom_session_time_ms = 0
    /\ \/ \E k \in EvalFailures : never_received(k)
       \/ \E age \in EvalAges, k \in EvalFailures :
             last_received(120, age, k)
    /\ \E pending \in BOOLEAN : one_notification(pending)
    /\ \E set \in BOOLEAN : override(set)
    /\ buzzer_init
    /\ net_init
    /\ side_init
    /\ display_init
    /\ \E um \in {STATE_GLUCOSE_DISPLAY, STATE_TIME_DISPLAY} :
          engine_running(um)

NextEval ==
    loop_engine

SpecEval ==
    InitEval /\ [][NextEval]_vars


(***************************************************************************)
(* The conditions of the selection rules, as the specification words them. *)
(***************************************************************************)
\* The time since engine_init().
Elapsed ==
    USub(now, boot_start_ms)

\* engine_loop() has made its selection on this pass.
TickDone ==
    pc = "end"

\* Rule 1: within 2 s of engine_init().
BootWindow ==
    Elapsed < 2000

\* Rule 2: WiFi credentials are configured and the link is down.
WifiDown ==
    config_has_wifi /\ ~wifi_connected

\* Rule 3: neither WiFi credentials nor a data source is configured.
NoConfig ==
    ~config_has_wifi /\ ~config_has_server

\* Rule 4: notifications are enabled and one is active.
NotifyActive ==
    config.notify_enabled /\ \E i \in Slots : notifications[i].active

\* 10 or more failures, or no fetch ever succeeded.
NeverOrTenFailures ==
    failure_count >= 10 \/ ~ever_received

\* The no-data condition: the above, once the 5 s grace period has passed.
NoDataCondition ==
    NeverOrTenFailures /\ Elapsed > 5000

\* The hard-stale condition: the age of the last success (infinite when
\* there is none) has reached stale_timeout_min minutes, or 5 or more
\* failures.
HardStaleCondition ==
    \/ ~ever_received
    \/ now - last_success_ms >= config.stale_timeout_min * 60000
    \/ failure_count >= 5

\* The health states.
HealthStates ==
    {STATE_NO_WIFI, STATE_NO_CFG, STATE_NO_DATA, STATE_STALE_WARNING}

\* Rule i of the ordered list applies.  The no-data rule is taken with a
\* data source configured, one of the inputs the selection reads.
RuleApplies(i) ==
    CASE i = 1 -> BootWindow
      [] i = 2 -> WifiDown
      [] i = 3 -> NoConfig
      [] i = 4 -> NotifyActive
      [] i = 5 -> NoDataCondition /\ config_has_server
      [] i = 6 -> HardStaleCondition
      [] i = 7 -> force_req # <<>>
      [] i = 8 -> current_reading.valid /\ current_reading.force_mode >= 0
      [] i = 9 -> current_reading.valid /\ current_reading.message # ""
      [] OTHER -> TRUE

\* The state rule i names.
RuleState(i) ==
    CASE i = 1 -> STATE_BOOT
      [] i = 2 -> STATE_NO_WIFI
      [] i = 3 -> STATE_NO_CFG
      [] i = 4 -> STATE_NOTIFY_DISPLAY
      [] i = 5 -> STATE_NO_DATA
      [] i = 6 -> STATE_STALE_WARNING
      [] i = 7 -> force_req[1]
      [] i = 8 -> current_reading.force_mode
      [] i = 9 -> STATE_MESSAGE_DISPLAY
      [] OTHER -> user_mode

\* The first rule of the list that applies.
FirstApplicable ==
    CHOOSE i \in 1..10 :
        RuleApplies(i) /\ \A j \in 1..(i - 1) : ~RuleApplies(j)

C3_NoDataAfterGrace ==
    ( /\ TickDone
      /\ Elapsed > 5000
      /\ ~BootWindow /\ ~WifiDown /\ ~NoConfig /\ ~NotifyActive
      /\ NeverOrTenFailures )
    => current_state = STATE_NO_DATA

\* A pass 5.001 s after boot with the link up, WiFi credentials and no data
\* source configured, no notification and nothing ever received: STALE is
\* selected.
C3_Witness ==
    /\ TickDone
    /\ Elapsed > 5000
    /\ wifi_connected /\ config_has_wifi /\ ~config_has_server
    /\ ~NotifyActive
    /\ ~ever_received
    /\ current_state = STATE_STALE_WARNING

C5_NoDataNeverBeforeGrace ==
    (TickDone /\ Elapsed < 5000) => current_state # STATE_NO_DATA

\* C5: on a pass earlier than 5 s after engine_init() NO_DATA is selected
\* only as the state a valid reading's force_mode names, never by the
\* no-data rule, whatever the failure count and whether or not a reading
\* was ever received.
C5_NoDataBeforeGraceOnlyForced ==
    (TickDone /\ Elapsed < 5000 /\ current_state = STATE_NO_DATA)
    => ( /\ ever_received
         /\ current_reading.valid
         /\ current_reading.force_mode = STATE_NO_DATA )

\* A pass inside the grace period on which nothing was ever received, with
\* a data source configured and the link up: NO_DATA is not selected.
C5_Witness ==
    /\ TickDone
    /\ ~BootWindow
    /\ Elapsed < 5000
    /\ ~ever_received
    /\ config_has_server
    /\ wifi_connected
    /\ ~NotifyActive
    /\ current_state = STATE_STALE_WARNING

\* The passes C6 speaks of: after the boot window, with WiFi down, or the
\* no-data or the hard-stale condition holding.
C6_Condition ==
    /\ TickDone
    /\ ~BootWindow
    /\ (WifiDown \/ NoDataCondition \/ HardStaleCondition)

\* C6 as stated: on every such pass the selected state is a health state.
C6_HealthDominatesContent ==
    C6_Condition => current_state \in HealthStates

\* C6: on every such pass the selected state is a health state, except
\* that an active notification (rule 4) is shown in place of NO_DATA and
\* STALE; MESSAGE, a forced state, a force_mode state and a user mode are
\* never selected.
C6_HealthDominatesButNotify ==
    C6_Condition =>
        IF NotifyActive /\ ~WifiDown /\ ~NoConfig
        THEN current_state = STATE_NOTIFY_DISPLAY
        ELSE current_state \in HealthStates

\* A pass on which the reading is 25 minutes old, an override is set and
\* the reading carries a message: STALE is selected.
C6_Witness ==
    /\ C6_Condition
    /\ ~NotifyActive
    /\ force_req # <<>>
    /\ current_reading.valid
    /\ current_reading.message # ""
    /\ current_state = STATE_STALE_WARNING


(***************************************************************************)
(* The claims on the override, in the state machine from boot.             *)
(***************************************************************************)
\* C2: after any sequence of fetches, configuration writes, force and clear
\* calls, navigation and passes, engine_get_state() is one of the 15
\* enumerated display states, whatever non-negative force_mode the latest
\* valid reading carries.
C2_StateIsEnumerated ==
    current_state \in DisplayState

\* A pass that selected the state a valid reading's force_mode of 99 names.
C2_Witness ==
    /\ TickDone
    /\ current_reading.valid
    /\ current_reading.force_mode = 99
    /\ current_state = 99

\* The state machine from boot with a JSON endpoint configured and the link
\* up: the loop, the weather-mock request that sets the override, and the
\* navigation requests.
InitForce ==
    /\ now = SETUP_DELAY_MS
    /\ pc = "http"
    /\ web_calls = 0
    /\ config = [config_set_defaults EXCEPT
                     !.server_url = "https://example.org/bg"]
    /\ prefs = config_save(config)
    /\ wifi_connected = TRUE
    /\ sysmon_last_push_ms = 0
    /\ http_init
    /\ notify_init
    /\ buzzer_init
    /\ net_init
    /\ side_init
    /\ display_init
    /\ engine_init

NextForce ==
    \/ \E o \in GenericOutcomes : http_loop(o)
    \/ \E evt \in ButtonEvents : loop_buttons(evt)
    \/ loop_buzzer
    \/ notify_loop
    \/ loop_engine
    \/ advance_time(Instants)
    \/ handle_test_weather_mock
    \/ handle_display_next
    \/ handle_display_prev

SpecForce ==
    InitForce /\ [][NextForce]_vars

\* engine_loop() evaluates on this step (it is not throttled).
Evaluates ==
    /\ pc = "engine"
    /\ pc' = "end"
    /\ USub(now, last_render_ms) >= RENDER_INTERVAL_MS

\* No health rule and no notification applies.
NoHealthNoNotify ==
    /\ ~BootWindow /\ ~WifiDown /\ ~NoConfig /\ ~NotifyActive
    /\ ~NoDataCondition /\ ~HardStaleCondition

\* What rules 8-10 select on an evaluating step.
Rules8To10 ==
    IF current_reading.valid /\ current_reading.force_mode >= 0
    THEN current_reading.force_mode
    ELSE IF current_reading.valid /\ current_reading.message # ""
    THEN STATE_MESSAGE_DISPLAY
    ELSE user_mode'

\* C7: when no health rule and no notification applies, every pass after
\* engine_force_state(S) selects S, whatever the user mode, the auto-cycle,
\* the navigation and the reading's force_mode and message, until
\* engine_clear_force(); engine_force_state() leaves user_mode alone, and
\* after engine_clear_force() rules 8-10 select as if nothing had been
\* forced.
C7_ForcedUntilCleared ==
    [][ /\ (Evaluates /\ NoHealthNoNotify) =>
              current_state' = (IF force_req # <<>> THEN force_req[1]
                                ELSE Rules8To10)
        /\ (force_req' # <<>> /\ force_req' # force_req) =>
              user_mode' = user_mode ]_vars

\* A pass that selected the forced weather screen over the user mode and
\* over the force_mode or message of a valid reading.
C7_Witness ==
    /\ TickDone
    /\ NoHealthNoNotify
    /\ force_req = <<STATE_WEATHER_DISPLAY>>
    /\ current_state = STATE_WEATHER_DISPLAY
    /\ user_mode # STATE_WEATHER_DISPLAY
    /\ current_reading.valid
    /\ (current_reading.force_mode >= 0 \/ current_reading.message # "")


(***************************************************************************)
(* The colour policy.  SpecColor starts engine_loop() on a healthy device  *)
(* showing the glucose screen, for each stored set of thresholds and each  *)
(* value of the reading, and lets it draw.                                 *)
(***************************************************************************)
\* The stored thresholds.  handle_post_config stores each threshold as it
\* is submitted, so the low threshold may lie at or below the urgent-low
\* one and the urgent-high threshold below the high one.
ColorConfigs ==
    {[config_set_defaults EXCEPT
         !.server_url = "https://example.org/bg",
         !.thresh_low = lo,
         !.thresh_urgent_high = uh,
         !.color_urgent_low = 15352629,
         !.color_low = 16497668,
         !.color_in_range = 3450963,
         !.color_high = 16746496,
         !.color_urgent_high = 16711935] :
        lo \in {60, 70, 80}, uh \in {170, 250}}

\* The values of the reading: 45, 300, and each threshold with its two
\* neighbours.
ColorValues ==
    {45, 300} \cup
    {t + d : t \in {60, 70, 80, 170, 180, 250}, d \in {-1, 0, 1}}

InitColor ==
    /\ pc = "engine"
    /\ web_calls = 0
    /\ now = SETUP_DELAY_MS + 60000
    /\ config \in ColorConfigs
    /\ prefs = config_save(config)
    /\ wifi_connected = TRUE
    /\ sysmon_last_push_ms = 0
    /\ dexcom_session_id = ""
    /\ dexcom_session_time_ms = 0
    /\ \E v \in ColorValues : last_received(v, 1000, 0)
    /\ current_reading.message = ""
    /\ current_reading.force_mode = -1
    /\ one_notification(FALSE)
    /\ override(FALSE)
    /\ buzzer_init
    /\ net_init
    /\ side_init
    /\ display_init
    /\ engine_running(STATE_GLUCOSE_DISPLAY)

NextColor ==
    loop_engine

SpecColor ==
    InitColor /\ [][NextColor]_vars

\* engine_loop() has drawn the glucose screen for the reading.
GlucoseDrawn ==
    /\ TickDone
    /\ current_state = STATE_GLUCOSE_DISPLAY
    /\ current_reading.valid

\* The five bands and the configured colour of each.
Bands ==
    {"urgent_low", "low", "in_range", "high", "urgent_high"}

BandColor(b) ==
    CASE b = "urgent_low" -> config.color_urgent_low
      [] b = "low"        -> config.color_low
      [] b = "in_range"   -> config.color_in_range
      [] b = "high"       -> config.color_high
      [] OTHER            -> config.color_urgent_high

\* The bands whose colour the value was drawn in.
DrawnBands ==
    {b \in Bands : drawn_color = <<BandColor(b)>>}

\* The value was drawn in the colour of band b and of no other band.
DrawnAs(b) ==
    DrawnBands = {b}

\* The thresholds are in their order.
ThresholdsOrdered ==
    /\ config.thresh_urgent_low < config.thresh_low
    /\ config.thresh_low <= config.thresh_high
    /\ config.thresh_high < config.thresh_urgent_high

\* A value equal to a threshold is in the lower-severity band of the two
\* the threshold separates.
BoundaryInLowerSeverityBand ==
    LET v == current_reading.glucose
    IN  /\ v = config.thresh_urgent_low  => DrawnAs("low")
        /\ v = config.thresh_low         => DrawnAs("in_range")
        /\ v = config.thresh_high        => DrawnAs("in_range")
        /\ v = config.thresh_urgent_high => DrawnAs("high")

\* With the default thresholds 45 is urgent-low.
DefaultScenario ==
    ( /\ current_reading.glucose = 45
      /\ config.thresh_urgent_low = 70 /\ config.thresh_low = 80
      /\ config.thresh_high = 180 /\ config.thresh_urgent_high = 250 )
    => DrawnAs("urgent_low")

\* C8 as stated: every value gets exactly one of the five bands, a value
\* equal to any threshold gets the lower-severity band of the two that
\* threshold separates, and 45 is urgent-low under the defaults.
C8_BoundaryLowerSeverity ==
    GlucoseDrawn =>
        /\ Cardinality(DrawnBands) = 1
        /\ BoundaryInLowerSeverityBand
        /\ DefaultScenario

\* C8: every value gets exactly one of the five bands, fixed by the value
\* and the thresholds alone; when the thresholds are in their order
\* (urgent_low < low <= high < urgent_high) a value equal to a threshold
\* gets the lower-severity band of the two that threshold separates; 45 is
\* urgent-low under the defaults.
C8_BoundaryLowerSeverityOrdered ==
    GlucoseDrawn =>
        /\ Cardinality(DrawnBands) = 1
        /\ ThresholdsOrdered => BoundaryInLowerSeverityBand
        /\ DefaultScenario

\* The value equals the high threshold of ordered thresholds and is drawn
\* in range.
C8_Witness ==
    /\ GlucoseDrawn
    /\ ThresholdsOrdered
    /\ current_reading.glucose = config.thresh_high
    /\ DrawnAs("in_range")

\* C9 as stated, for thresholds in their order: a value equal to the
\* configured low threshold is coloured low.
C9_LowThresholdIsLow ==
    (GlucoseDrawn /\ ThresholdsOrdered
        /\ current_reading.glucose = config.thresh_low)
    => DrawnAs("low")

\* C9: with the thresholds in their order, a value equal to the configured
\* urgent-low threshold is coloured low, not urgent-low, and a value equal
\* to the configured low threshold is coloured in range, not low.
C9_LowThresholdIsInRange ==
    (GlucoseDrawn /\ ThresholdsOrdered) =>
        /\ current_reading.glucose = config.thresh_urgent_low
              => DrawnAs("low")
        /\ current_reading.glucose = config.thresh_low
              => DrawnAs("in_range")

\* The value 80 under the default thresholds, drawn in range.
C9_Witness ==
    /\ GlucoseDrawn
    /\ config.thresh_urgent_low = 70
    /\ config.thresh_low = 80
    /\ current_reading.glucose = 80
    /\ DrawnAs("in_range")

(***************************************************************************)
(* The delta.  SpecHttp runs the loop from boot with the link up, against  *)
(* the JSON endpoint or Dexcom Share, a poll interval apart.               *)
(***************************************************************************)
\* The number of poll intervals the clock visits after boot.
MaxPolls ==
    3

PollInstants ==
    {SETUP_DELAY_MS + k * 60000 : k \in 0..MaxPolls}

\* The answers of the JSON endpoint: the failures, no usable value, and
\* three values.
HttpGenericOutcomes ==
    {[kind |-> k] : k \in {"begin_fail", "http_error", "parse_error"}}
    \cup
    {[kind |-> "json", glucose |-> g, trend |-> Label.Flat, message |-> "",
      force_mode |-> -1] : g \in {0, 95, 120, 140}}

\* The answers of Dexcom Share.
HttpDexcomOutcomes ==
    {[kind |-> k] :
        k \in {"login_fail", "begin_fail", "http_error", "http_500",
               "parse_error", "empty"}}
    \cup
    {[kind |-> "json", glucose |-> g, trend_kind |-> "str", trend_num |-> 0,
      trend |-> Label.SingleDown] : g \in {0, 95, 120, 140}}

HttpConfigs ==
    { [config_set_defaults EXCEPT !.server_url = "https://example.org/bg"],
      [config_set_defaults EXCEPT !.data_source = 1,
                                  !.dexcom_username = "user",
                                  !.dexcom_password = "pass"] }

InitHttp ==
    /\ now = SETUP_DELAY_MS
    /\ pc = "http"
    /\ web_calls = 0
    /\ config \in HttpConfigs
    /\ prefs = config_save(config)
    /\ wifi_connected = TRUE
    /\ sysmon_last_push_ms = 0
    /\ http_init
    /\ notify_init
    /\ buzzer_init
    /\ net_init
    /\ side_init
    /\ display_init
    /\ engine_init

NextHttp ==
    \/ \E o \in (IF config.data_source = 1 THEN HttpDexcomOutcomes
                 ELSE HttpGenericOutcomes) : http_loop(o)
    \/ loop_buttons("BTN_NONE")
    \/ loop_buzzer
    \/ notify_loop
    \/ loop_engine
    \/ advance_time(PollInstants)

SpecHttp ==
    InitHttp /\ [][NextHttp]_vars

\* C10: http_get_delta() after the n-th accepted reading is
\* value[n] - value[n-1], and 0 after the first one; a fetch that is
\* rejected changes neither the delta nor the remembered previous value.
\* accepted holds the last two accepted values, and changes only when a
\* reading is accepted.
C10_DeltaOfAccepted ==
    /\ Len(accepted) = 0 => (current_delta = 0 /\ ~has_prev_reading)
    /\ Len(accepted) = 1 =>
          /\ current_delta = 0
          /\ has_prev_reading
          /\ prev_glucose = accepted[1]
    /\ Len(accepted) = 2 =>
          /\ current_delta = accepted[2] - accepted[1]
          /\ has_prev_reading
          /\ prev_glucose = accepted[2]

\* Two different values were accepted and a rejected fetch followed.
C10_Witness ==
    /\ Len(accepted) = 2
    /\ accepted[1] # accepted[2]
    /\ current_delta = accepted[2] - accepted[1]
    /\ failure_count > 0


\* http_loop() makes a poll attempt on this step: it stamps last_poll_ms.
PollAttempted ==
    last_poll_ms' # last_poll_ms

\* A valid reading is accepted on this step.
ReadingAccepted ==
    /\ recorded' # recorded
    /\ current_reading'.valid

\* C13: every poll attempt of http_loop either resets failure_count to 0,
\* exactly when a valid reading was accepted, or increases it by one; a
\* step without a poll attempt leaves it unchanged.
C13_FailureCountPerAttempt ==
    [][IF PollAttempted
       THEN \/ ReadingAccepted /\ failure_count' = 0
            \/ ~ReadingAccepted /\ failure_count' = failure_count + 1
       ELSE failure_count' = failure_count]_vars

\* The first poll failed, the second was accepted and reset the count, and
\* the third failed.
C13_Witness ==
    /\ Len(recorded) = 1
    /\ recorded[1].timestamp = SETUP_DELAY_MS + 60000
    /\ last_poll_ms = SETUP_DELAY_MS + 2 * 60000
    /\ failure_count = 1

\* The fields of the slot that C14 names.
SlotFields(r) ==
    <<r.glucose, r.trend, r.valid, r.message, r.force_mode>>

\* C14: a poll attempt that counts as a failure leaves the value, trend,
\* validity flag, message and force_mode of the current reading as they
\* were.
C14_FailureKeepsSlot ==
    [][failure_count' = failure_count + 1 =>
          SlotFields(current_reading') = SlotFields(current_reading)]_vars

\* A valid reading was accepted, the next poll counted as a failure, and
\* the slot no longer holds the accepted reading.
C14_Witness ==
    /\ ever_received
    /\ failure_count = 1
    /\ Len(recorded) = 1
    /\ ~current_reading.valid
    /\ current_reading.glucose # recorded[1].glucose

(***************************************************************************)
(* The history.  SpecHistory runs the loop from boot with the link up for  *)
(* enough polls to fill the circular buffer and wrap it twice.  The sensor *)
(* reports a value that follows the poll number, so that the entries are   *)
(* told apart, and a few of the polls may fail.                            *)
(***************************************************************************)
\* The number of poll intervals the clock visits after boot.
MaxHistoryPolls ==
    98
\* The polls that may fail: the first two, the one that would fill the
\* buffer, and one after the first wrap.
HistoryFailurePolls ==
    {0, 1, GLUCOSE_HISTORY_SIZE - 1, GLUCOSE_HISTORY_SIZE + 12}

HistoryInstants ==
    {SETUP_DELAY_MS + k * 60000 : k \in 0..MaxHistoryPolls}

\* The number of the poll made at this instant.
HistoryPollNumber ==
    (now - SETUP_DELAY_MS) \div 60000

\* The value the sensor reports at this instant.
HistoryGlucose ==
    60 + 3 * (HistoryPollNumber % 50)

\* The answers of the server at this instant: the sensor's value, or a
\* failure at the polls that may fail.
HistoryOutcomes ==
    (IF config.data_source = 1
     THEN {[kind |-> "json", glucose |-> HistoryGlucose,
            trend_kind |-> "int", trend_num |-> 4, trend |-> <<>>]}
     ELSE {[kind |-> "json", glucose |-> HistoryGlucose, trend |-> Label.Flat,
            message |-> "", force_mode |-> -1]})
    \cup
    (IF HistoryPollNumber \in HistoryFailurePolls
     THEN {[kind |-> "http_error"]}
     ELSE {})

InitHistory ==
    /\ now = SETUP_DELAY_MS
    /\ pc = "http"
    /\ web_calls = 0
    /\ config \in HttpConfigs
    /\ prefs = config_save(config)
    /\ wifi_connected = TRUE
    /\ sysmon_last_push_ms = 0
    /\ http_init
    /\ notify_init
    /\ buzzer_init
    /\ net_init
    /\ side_init
    /\ display_init
    /\ engine_init

NextHistory ==
    \/ \E o \in HistoryOutcomes : http_loop(o)
    \/ loop_buttons("BTN_NONE")
    \/ loop_buzzer
    \/ notify_loop
    \/ loop_engine
    \/ advance_time(HistoryInstants)

SpecHistory ==
    InitHistory /\ [][NextHistory]_vars

\* The values of max_count the history is read with: none, a few, one less
\* than the capacity, the capacity (handle_history), and more.
HistoryMaxCounts ==
    {0, 1, 2, GLUCOSE_HISTORY_SIZE - 1, GLUCOSE_HISTORY_SIZE,
     GLUCOSE_HISTORY_SIZE + 1, 2 * GLUCOSE_HISTORY_SIZE}

\* The elements of sequence q.
Elements(q) ==
    {q[i] : i \in 1..Len(q)}

\* The last n elements of sequence q.
LastOf(q, n) ==
    SubSeq(q, Len(q) - n + 1, Len(q))

\* The number of entries the buffer holds after the readings recorded.
StoredCount ==
    Min(Len(recorded), GLUCOSE_HISTORY_SIZE)

\* C11: the history never holds more than GLUCOSE_HISTORY_SIZE entries,
\* whatever the number of accepted readings; once more readings than the
\* capacity were accepted, the first reading is absent from what
\* http_get_history returns and the newest one is present.
C11_HistoryBounded ==
    /\ history_count <= GLUCOSE_HISTORY_SIZE
    /\ \A m \in HistoryMaxCounts :
          Len(http_get_history(m)) <= GLUCOSE_HISTORY_SIZE
    /\ Len(recorded) > GLUCOSE_HISTORY_SIZE =>
          \A m \in {GLUCOSE_HISTORY_SIZE, 2 * GLUCOSE_HISTORY_SIZE} :
              /\ recorded[1] \notin Elements(http_get_history(m))
              /\ recorded[Len(recorded)] \in Elements(http_get_history(m))

\* Exactly one more reading than the capacity was accepted.
C11_Witness ==
    /\ Len(recorded) = GLUCOSE_HISTORY_SIZE + 1
    /\ history_count = GLUCOSE_HISTORY_SIZE
    /\ history_write_idx = 1
    /\ recorded[1] \notin Elements(http_get_history(GLUCOSE_HISTORY_SIZE))

\* C12: for every max_count >= 0 and every number of accepted readings,
\* http_get_history returns min(max_count, stored count) entries: the most
\* recently recorded ones, oldest first, each with the delta and the
\* timestamp it was recorded with.
C12_HistoryIsLastRecorded ==
    \A m \in HistoryMaxCounts :
        http_get_history(m) = LastOf(recorded, Min(m, StoredCount))

\* The buffer has wrapped twice, polls failed on the way (the delta of the
\* reading after a failed poll spans two steps of the sensor), and fewer
\* entries are read than are stored.
C12_Witness ==
    /\ Len(recorded) > 2 * GLUCOSE_HISTORY_SIZE
    /\ HistoryPollNumber > Len(recorded)
    /\ Len(http_get_history(2)) = 2
    /\ http_get_history(2)[2] = recorded[Len(recorded)]
    /\ \E e \in Elements(http_get_history(GLUCOSE_HISTORY_SIZE)) :
          e.delta = 6


(***************************************************************************)
(* Navigation.  SpecNav runs the loop from boot on a device with the timer *)
(* and stopwatch screens disabled: a few passes 100 ms apart, in which the *)
(* buttons and the web requests navigate, and later passes at which the    *)
(* toggle order is rebuilt and the auto-cycle advances.                    *)
(***************************************************************************)
NavInstants ==
    {100, 200, 300, 400, 500, 20500, 26000, 30500}

\* The stored configurations: the three fixed screens, with the default
\* mode glucose or weather (the weather screen being disabled).
NavConfigs ==
    {[config_set_defaults EXCEPT !.timer_enabled = FALSE,
                                 !.stopwatch_enabled = FALSE,
                                 !.default_mode = dm] : dm \in {0, 2}}

NavButtonEvents ==
    {"BTN_NONE", "BTN_LEFT_SHORT", "BTN_RIGHT_SHORT", "BTN_LEFT_LONG"}

NavConfigDocs ==
    {[countdown_enabled |-> TRUE]}

InitNav ==
    /\ now = SETUP_DELAY_MS
    /\ pc = "http"
    /\ web_calls = 0
    /\ config \in NavConfigs
    /\ prefs = config_save(config)
    /\ wifi_connected = FALSE
    /\ sysmon_last_push_ms = 0
    /\ http_init
    /\ notify_init
    /\ buzzer_init
    /\ net_init
    /\ side_init
    /\ display_init
    /\ engine_init

NextNav ==
    \/ \E o \in PollOutcomes : http_loop(o)
    \/ \E evt \in NavButtonEvents : loop_buttons(evt)
    \/ loop_buzzer
    \/ notify_loop
    \/ loop_engine
    \/ advance_time(NavInstants)
    \/ \E doc \in NavConfigDocs : handle_post_config(doc)
    \/ handle_post_sysmon
    \/ handle_display_next
    \/ handle_display_prev

SpecNav ==
    InitNav /\ [][NextNav]_vars

\* C15: after exactly toggle_count calls of engine_toggle_mode() with no
\* rebuild, auto-cycle advance or other navigation in between, user_mode
\* is the value it had before the first call.
C15_ToggleCountTimesReturns ==
    toggle_run.calls = Len(toggle_order) => user_mode = toggle_run.mode

\* A run of toggle_count calls that started on the trend screen and came
\* back to it.
C15_Witness ==
    /\ toggle_run.calls = Len(toggle_order)
    /\ toggle_run.mode = STATE_TREND_DISPLAY
    /\ user_mode = STATE_TREND_DISPLAY

\* engine_loop() advances the user mode automatically on this step.
AutoCycleChangesMode ==
    /\ pc = "engine"
    /\ pc' = "end"
    /\ user_mode' # user_mode

\* C16: the auto-cycle never changes user_mode less than auto_cycle_sec
\* seconds after the most recent manual change of the user mode or the
\* most recent automatic advance.
C16_AutoCycleWaitsInterval ==
    [][AutoCycleChangesMode =>
          /\ nav_log.manual_ms >= 0 =>
                now - nav_log.manual_ms >= config.auto_cycle_sec * 1000
          /\ nav_log.auto_ms >= 0 =>
                now - nav_log.auto_ms >= config.auto_cycle_sec * 1000]_vars

\* The auto-cycle has just advanced, a full interval or more after the
\* mode was last changed by hand.
C16_Witness ==
    /\ pc = "end"
    /\ nav_log.auto_ms = now
    /\ nav_log.manual_ms >= 0
    /\ now - nav_log.manual_ms >= config.auto_cycle_sec * 1000

\* C17: no automatic advance sets user_mode to the system monitor screen
\* while sysmon_has_data() is false.
C17_AutoCycleSkipsStaleSysmon ==
    [][(AutoCycleChangesMode /\ user_mode' = STATE_SYSMON_DISPLAY) =>
          sysmon_has_data]_vars

\* The auto-cycle has just advanced to the system monitor screen.
C17_Witness ==
    /\ pc = "end"
    /\ nav_log.auto_ms = now
    /\ user_mode = STATE_SYSMON_DISPLAY


(***************************************************************************)
(* The beep sequencer.  SpecBuzzer runs the loop from boot, its passes 50  *)
(* to 200 ms apart; a caller requests one burst during the first passes    *)
(* (a feature engine with any count, or an urgent notification), and       *)
(* nothing else calls the buzzer.  The loop never stops running.           *)
(***************************************************************************)
\* The largest count a burst is requested with.
MaxBeepCount ==
    3

BeepDurations ==
    {150, 200}

BuzzerInstants ==
    {SETUP_DELAY_MS + 500 * k + d : k \in 0..6, d \in {0, 50, 150, 300}}

\* A caller (timer_loop, notify_push, check_alerts) calls
\* buzzer_beep(count, freq, duration_ms).
call_buzzer_beep(count, freq, duration_ms) ==
    /\ buzzer_beep(count, freq, duration_ms)
    /\ UNCHANGED <<now, pc, web_calls, config, prefs, wifi_connected, http_vars,
                   notifications, sysmon_last_push_ms, engine_vars>>
    /\ UNCHANGED <<display_vars, net_vars, side_vars>>

InitBuzzer ==
    /\ now = SETUP_DELAY_MS
    /\ pc = "http"
    /\ web_calls = 0
    /\ config = config_set_defaults
    /\ prefs = config_save(config)
    /\ wifi_connected = FALSE
    /\ sysmon_last_push_ms = 0
    /\ http_init
    /\ notify_init
    /\ buzzer_init
    /\ net_init
    /\ side_init
    /\ display_init
    /\ engine_init

\* One pass of loop(), component by component.
LoopBuzzer ==
    \/ \E o \in PollOutcomes : http_loop(o)
    \/ loop_buttons("BTN_NONE")
    \/ loop_buzzer
    \/ notify_loop
    \/ loop_engine
    \/ advance_time(BuzzerInstants)

\* No burst was requested yet, and the loop is in its first passes.
FirstBurst ==
    /\ buzzer_log = buzzer_log_none
    /\ now <= SETUP_DELAY_MS + 50

NextBuzzer ==
    \/ LoopBuzzer
    \/ /\ FirstBurst
       /\ \E count \in 0..MaxBeepCount, duration_ms \in BeepDurations :
             call_buzzer_beep(count, 2000, duration_ms)
    \/ /\ FirstBurst
       /\ handle_post_notify("ALERT", TRUE)

SpecBuzzer ==
    InitBuzzer /\ [][NextBuzzer]_vars /\ WF_vars(LoopBuzzer)

\* The burst requested is over: every beep of it has been switched on and
\* the output is off.
BurstOver ==
    /\ buzzer_log.switched_on >= buzzer_log.requested
    /\ ~beep_on

\* The output is switched off on this step.
SwitchedOff ==
    beep_on /\ ~beep_on'

\* buzzer_loop() switches the output on on this step.
SwitchedOnByLoop ==
    /\ ~beep_on
    /\ beep_on'
    /\ buzzer_log'.requested = buzzer_log.requested
    /\ buzzer_log # buzzer_log_none

C18_BeepSequencePositive ==
    /\ [](buzzer_log.requested >= 1 =>
             /\ buzzer_log.switched_on <= buzzer_log.requested
             /\ ~buzzer_is_active =>
                    buzzer_log.switched_on = buzzer_log.requested
             /\ ~BurstOver => buzzer_is_active)
    /\ [][buzzer_log.requested >= 1 =>
             /\ SwitchedOff =>
                   now - buzzer_log.last_switch_ms >= buzzer_log.duration
             /\ SwitchedOnByLoop =>
                   now - buzzer_log.last_switch_ms >= BEEP_GAP_MS]_vars
    /\ (buzzer_log.requested >= 1) ~> [](~buzzer_is_active)

AlertWrapMs ==
    200000

AlertStart ==
    ULONG_MAX - AlertWrapMs + 1

\* The instants of the passes, counted from AlertStart.
AlertOffsets ==
    {4000, 12000, 60000, 64000, 72000, 160000, 164000, 172000, 204000,
     208000, 216000}

AlertConfigs ==
    { [config_set_defaults EXCEPT !.server_url = "https://example.org/bg",
                                  !.alert_enabled = e,
                                  !.alert_snooze_min = 1] : e \in BOOLEAN }

AlertOutcomes ==
    {[kind |-> "http_error"]}
    \cup
    {[kind |-> "json", glucose |-> g, trend |-> Label.Flat, message |-> "",
      force_mode |-> -1] : g \in {55, 120}}

AlertConfigDocs ==
    { [alert_enabled |-> TRUE], [alert_enabled |-> FALSE] }

\* The next pass of loop() starts at the next instant of the clock, the
\* instants being start + d for the offsets d of set Offsets, on a clock
\* that wraps.
advance_time_from_to(start, Offsets, first) ==
    /\ pc = "end"
    /\ \E d \in Offsets :
          /\ d > USub(now, start)
          /\ \A e \in Offsets : e > USub(now, start) => d <= e
          /\ now' = UAdd(start, d)
    /\ pc' = first
    /\ UNCHANGED <<web_calls, config, prefs, wifi_connected, http_vars,
                   notifications, sysmon_last_push_ms, engine_vars,
                   buzzer_vars>>
    /\ UNCHANGED <<display_vars, net_vars, side_vars>>

advance_time_from(start, Offsets) ==
    advance_time_from_to(start, Offsets, "http")

InitAlert ==
    /\ pc = "buttons"
    /\ web_calls = 0
    /\ now = AlertStart
    /\ config \in AlertConfigs
    /\ prefs = config_save(config)
    /\ wifi_connected = TRUE
    /\ sysmon_last_push_ms = 0
    /\ dexcom_session_id = ""
    /\ dexcom_session_time_ms = 0
    /\ \E v \in {55, 120, 300} : last_received(v, 0, 0)
    /\ current_reading.message = ""
    /\ current_reading.force_mode = -1
    /\ one_notification(FALSE)
    /\ override(FALSE)
    /\ buzzer_init
    /\ net_init
    /\ side_init
    /\ display_init
    /\ engine_running(STATE_GLUCOSE_DISPLAY)

NextAlert ==
    \/ \E o \in AlertOutcomes : http_loop(o)
    \/ \E evt \in {"BTN_NONE", "BTN_MIDDLE_LONG"} : loop_buttons(evt)
    \/ loop_buzzer
    \/ notify_loop
    \/ loop_engine
    \/ advance_time_from(AlertStart, AlertOffsets)
    \/ \E doc \in AlertConfigDocs : handle_post_config(doc)

SpecAlert ==
    InitAlert /\ [][NextAlert]_vars

\* check_alerts() starts a burst on this step.
AlertBurst ==
    alert_log' # alert_log

\* The glucose of the slot is outside the alert thresholds.
OutOfRange ==
    \/ current_reading.glucose < config.alert_low
    \/ current_reading.glucose > config.alert_high

\* C19: check_alerts() starts a burst only when alerts are enabled and the
\* latest valid reading is below alert_low or above alert_high, and two
\* bursts it starts are at least 10 s apart.
C19_AlertBurstsSpaced ==
    [][AlertBurst =>
          /\ config.alert_enabled
          /\ current_reading.valid
          /\ current_reading.glucose = accepted[Len(accepted)]
          /\ OutOfRange
          /\ alert_log.last >= 0 => USub(now, alert_log.last) >= 10000]_vars

\* Two bursts 12 s apart, the loop having run in between.
C19_Witness ==
    /\ alert_log.prev >= 0
    /\ USub(alert_log.last, alert_log.prev) = 12000
    /\ config.alert_enabled
    /\ OutOfRange

\* The time since the last engine_snooze_alerts() call is shorter than the
\* snooze it asked for.
Snoozed ==
    /\ snooze_log.at >= 0
    /\ USub(now, snooze_log.at) < snooze_log.min * 60000

\* engine_loop() runs check_alerts() on this step.
AlertChecked ==
    /\ pc = "engine"
    /\ pc' = "end"
    /\ USub(now, last_render_ms) >= RENDER_INTERVAL_MS

\* C20: after engine_snooze_alerts() at time t, check_alerts() starts no
\* burst before t + alert_snooze_min minutes, and it alerts again once that
\* time has passed: a check made then, alerts enabled, the reading valid
\* and out of range and the last beep 10 s old, starts a burst.
C20_SnoozeSuppresses ==
    [][/\ AlertBurst => ~Snoozed
       /\ (/\ AlertChecked
           /\ snooze_log.at >= 0
           /\ ~Snoozed
           /\ config.alert_enabled
           /\ current_reading.valid
           /\ OutOfRange
           /\ USub(now, last_beep_ms) >= BEEP_INTERVAL_MS) => AlertBurst]_vars

\* C20 away from the wrap of the clock: the same, for the steps on which
\* neither millis() nor the end of the snooze has wrapped.
C20_SnoozeSuppressesBelowWrap ==
    [][(\/ snooze_log.at < 0
        \/ now >= AlertStart /\ alert_snooze_until_ms >= AlertStart) =>
          /\ AlertBurst => ~Snoozed
          /\ (/\ AlertChecked
              /\ snooze_log.at >= 0
              /\ ~Snoozed
              /\ config.alert_enabled
              /\ current_reading.valid
              /\ OutOfRange
              /\ USub(now, last_beep_ms) >= BEEP_INTERVAL_MS) => AlertBurst]_vars

\* A burst, then a snooze, then the next burst once the snooze is over.
C20_Witness ==
    /\ alert_log.prev >= 0
    /\ snooze_log.at >= 0
    /\ USub(snooze_log.at, alert_log.prev) < 10000
    /\ USub(alert_log.last, snooze_log.at) >= snooze_log.min * 60000
    /\ USub(alert_log.last, snooze_log.at) < snooze_log.min * 60000 + 10000


(***************************************************************************)
(* The brightness of the frames.  SpecBright starts from a device that has *)
(* run for a quarter of an hour, at the button dispatch of a pass; night   *)
(* mode and the automatic brightness are set or not, the clock is known or *)
(* not, and the light sensor and the clock change between the passes.      *)
(***************************************************************************)
BrightStart ==
    SETUP_DELAY_MS + 15 * 60000

BrightInstants ==
    {BrightStart + d : d \in {0, 1000, 2000}}

\* The windows 22-07, which wraps past midnight, and 01-06.
BrightConfigs ==
    { [config_set_defaults EXCEPT !.server_url = "https://example.org/bg",
                                  !.night_mode_enabled = n,
                                  !.auto_brightness = a,
                                  !.night_start_hour = w[1],
                                  !.night_end_hour = w[2]] :
        n \in BOOLEAN, a \in BOOLEAN, w \in {<<22, 7>>, <<1, 6>>} }

BrightHours ==
    {3, 12, 23}

BrightLdr ==
    {0, 4095}

\* sensors_loop(): the smoothed reading of the light sensor becomes ldr.
sensors_loop(ldr) ==
    /\ pc = "buttons"
    /\ ldr # ldr_smoothed
    /\ ldr_smoothed' = ldr
    /\ UNCHANGED <<now, pc, web_calls, config, prefs, wifi_connected, http_vars,
                   notifications, sysmon_last_push_ms, engine_vars,
                   buzzer_vars, current_brightness, time_available,
                   time_hour,
                   net_vars, side_vars>>

\* The local time moves on to hour h.
time_hour_change(h) ==
    /\ pc = "buttons"
    /\ time_available
    /\ h # time_hour
    /\ time_hour' = h
    /\ UNCHANGED <<now, pc, web_calls, config, prefs, wifi_connected, http_vars,
                   notifications, sysmon_last_push_ms, engine_vars,
                   buzzer_vars, current_brightness, ldr_smoothed,
                   time_available,
                   net_vars, side_vars>>

InitBright ==
    /\ pc = "buttons"
    /\ web_calls = 0
    /\ now = BrightStart
    /\ config \in BrightConfigs
    /\ prefs = config_save(config)
    /\ wifi_connected \in BOOLEAN
    /\ sysmon_last_push_ms = 0
    /\ dexcom_session_id = ""
    /\ dexcom_session_time_ms = 0
    /\ \/ never_received(0)
       \/ \E age \in {1000, 11 * 60000} : last_received(120, age, 0)
    /\ current_reading.message = ""
    /\ current_reading.force_mode = -1
    /\ one_notification(FALSE)
    /\ override(FALSE)
    /\ buzzer_init
    /\ net_init
    /\ side_init
    /\ current_brightness = 40
    /\ ldr_smoothed \in BrightLdr
    /\ time_available \in BOOLEAN
    /\ time_hour = (IF time_available THEN 23 ELSE -1)
    /\ engine_running(STATE_GLUCOSE_DISPLAY)

NextBright ==
    \/ http_loop([kind |-> "http_error"])
    \/ \E evt \in {"BTN_NONE", "BTN_LEFT_SHORT", "BTN_MIDDLE_SHORT"} :
          loop_buttons(evt)
    \/ loop_buzzer
    \/ notify_loop
    \/ loop_engine
    \/ advance_time(BrightInstants)
    \/ \E ldr \in BrightLdr : sensors_loop(ldr)
    \/ \E h \in BrightHours : time_hour_change(h)

SpecBright ==
    InitBright /\ [][NextBright]_vars

\* engine_loop() renders a frame on this step.
FrameRendered ==
    /\ pc = "engine"
    /\ pc' = "end"
    /\ USub(now, last_render_ms) >= RENDER_INTERVAL_MS

\* C21: whenever night mode is enabled and the hour lies inside the window,
\* every frame is rendered at night_brightness, in every display state,
\* whatever the automatic brightness and the light sensor say.
C21_NightBrightnessEveryFrame ==
    [][FrameRendered /\ is_night_mode =>
          current_brightness' = config.night_brightness]_vars

\* A glucose frame rendered at 23h in the window 22-07 at night_brightness,
\* the automatic brightness enabled and giving another value.
C21_Witness ==
    /\ pc = "end"
    /\ last_render_ms = now
    /\ current_state = STATE_GLUCOSE_DISPLAY
    /\ is_night_mode
    /\ config.night_start_hour = 22
    /\ time_hour = 23
    /\ config.auto_brightness
    /\ sensors_get_auto_brightness # config.night_brightness
    /\ current_brightness = config.night_brightness

\* C22: when night mode does not apply, every frame is rendered at the
\* value derived from the light sensor if auto_brightness is enabled, and
\* at the configured brightness if it is disabled.
C22_DayBrightness ==
    [][FrameRendered /\ ~is_night_mode =>
          current_brightness' = (IF config.auto_brightness
                                 THEN sensors_get_auto_brightness
                                 ELSE config.brightness)]_vars

\* A glucose frame rendered outside night mode at the configured
\* brightness, the automatic brightness disabled.
C22_Witness ==
    /\ pc = "end"
    /\ last_render_ms = now
    /\ current_state = STATE_GLUCOSE_DISPLAY
    /\ current_reading.valid
    /\ ~is_night_mode
    /\ ~config.auto_brightness
    /\ current_brightness = config.brightness


(***************************************************************************)
(* The trend.  SpecTrend runs the loop from boot with the link up, against *)
(* the JSON endpoint or Dexcom Share; each answer carries its trend as a   *)
(* number, as a text in some spelling, or not at all.                      *)
(***************************************************************************)
TrendTexts ==
    {Label[n] : n \in DOMAIN Label \ {"Unknown"}}
    \cup
    { <<"s", "i", "n", "g", "l", "e", "d", "o", "w", "n">>,
      <<"F", "L", "A", "T">>,
      <<"d", "o", "u", "b", "l", "e", "U", "P">>,
      <<"S", "i", "d", "e", "w", "a", "y", "s">>,
      <<"6">>,
      <<>> }

TrendNumbers ==
    0..8

\* The trends of the answers: a text, a number, and none.
TrendForms ==
    {[trend_kind |-> "str", trend_num |-> 0, trend |-> t] : t \in TrendTexts}
    \cup
    {[trend_kind |-> "int", trend_num |-> n, trend |-> <<>>] :
        n \in TrendNumbers}
    \cup
    {[trend_kind |-> "null", trend_num |-> 0, trend |-> <<>>]}

TrendGenericOutcomes ==
    {[kind |-> "json", glucose |-> 120, trend_kind |-> f.trend_kind,
      trend_num |-> f.trend_num, trend |-> f.trend, message |-> "",
      force_mode |-> -1] : f \in TrendForms}

TrendDexcomOutcomes ==
    {[kind |-> "json", glucose |-> 120, trend_kind |-> f.trend_kind,
      trend_num |-> f.trend_num, trend |-> f.trend] : f \in TrendForms}

InitTrend ==
    InitHttp

NextTrend ==
    \/ \E o \in (IF config.data_source = 1 THEN TrendDexcomOutcomes
                 ELSE TrendGenericOutcomes) : http_loop(o)
    \/ loop_buttons("BTN_NONE")
    \/ loop_buzzer
    \/ notify_loop
    \/ loop_engine
    \/ advance_time(PollInstants)

SpecTrend ==
    InitTrend /\ [][NextTrend]_vars

\* The text in lower case.
Lowered(t) ==
    [i \in 1..Len(t) |-> tolower(t[i])]

\* The labels of the legacy numeric codes 1 to 7.
CodeLabel ==
    <<Label.DoubleUp, Label.SingleUp, Label.FortyFiveUp, Label.Flat,
      Label.FortyFiveDown, Label.SingleDown, Label.DoubleDown>>

\* The arrow category of a label, whatever its case.
CategoryOfLabel(t) ==
    LET named(S) == Lowered(t) \in {Lowered(Label[n]) : n \in S}
    IN  CASE named({"RisingFast", "DoubleUp"})        -> TREND_RISING_FAST
          [] named({"Rising", "SingleUp", "FortyFiveUp"}) -> TREND_RISING
          [] named({"Flat"})                          -> TREND_FLAT
          [] named({"Falling", "SingleDown", "FortyFiveDown"}) -> TREND_FALLING
          [] named({"FallingFast", "DoubleDown"})     -> TREND_FALLING_FAST
          [] OTHER                                    -> TREND_UNKNOWN

\* The arrow category of a trend: a code 1 to 7 has that of its label, and
\* whatever is not recognised is unknown.
CategoryOfTrend(t) ==
    CASE t.kind = "int" -> IF t.num \in 1..7
                           THEN CategoryOfLabel(CodeLabel[t.num])
                           ELSE TREND_UNKNOWN
      [] t.kind = "str" -> CategoryOfLabel(t.label)
      [] OTHER          -> TREND_UNKNOWN

\* C23: for both clients the trend of the answer, a numeric code 1 to 7 or
\* a label in any case, is stored as the arrow category of that code or
\* label, and anything else as unknown.
C23_TrendMapping ==
    trend_in # trend_in_none =>
        current_reading.trend = CategoryOfTrend(trend_in)

\* C23 for Dexcom Share, and for the labels with the JSON endpoint.
C23_TrendMappingTyped ==
    (/\ trend_in # trend_in_none
     /\ config.data_source = 1 \/ trend_in.kind # "int") =>
        current_reading.trend = CategoryOfTrend(trend_in)

\* The JSON endpoint has answered with the label "singledown", stored as
\* falling.
C23_Witness ==
    /\ config.data_source = 0
    /\ trend_in.kind = "str"
    /\ trend_in.label = <<"s", "i", "n", "g", "l", "e", "d", "o", "w", "n">>
    /\ current_reading.trend = TREND_FALLING


(***************************************************************************)
(* The notification pool.  SpecNotify runs the loop from boot, its passes  *)
(* half a minute apart; POST /api/notify arrives at any point, each        *)
(* request with a text of its own and a duration of 10 s or 60 s.          *)
(***************************************************************************)
\* The number of POST /api/notify requests served in one run.
MaxPushes ==
    5

\* The text of the n-th request.
PushText ==
    <<"N1", "N2", "N3", "N4", "N5", "N6", "N7">>

PushDurations ==
    {10, 60}

NotifyInstants ==
    {SETUP_DELAY_MS + k * 30000 : k \in 0..2}

\* handle_post_notify for the next request, of duration duration_sec.
handle_post_notify_next(duration_sec) ==
    /\ web_calls < MaxPushes
    /\ web_calls' = web_calls + 1
    /\ post_notify(PushText[web_calls + 1], duration_sec, FALSE)

InitNotify ==
    InitBuzzer

NextNotify ==
    \/ http_loop([kind |-> "http_error"])
    \/ loop_buttons("BTN_NONE")
    \/ loop_buzzer
    \/ notify_loop
    \/ loop_engine
    \/ advance_time(NotifyInstants)
    \/ \E d \in PushDurations : handle_post_notify_next(d)

SpecNotify ==
    InitNotify /\ [][NextNotify]_vars

\* The texts of the active notifications of pool p.
ActiveTexts(p) ==
    {p[i].text : i \in {j \in Slots : p[j].active}}

\* The number of the request that carried text t.
PushIndex(t) ==
    CHOOSE n \in 1..Len(PushText) : PushText[n] = t

\* The active notification of pool p that was pushed earliest.
EarliestPushed(p) ==
    CHOOSE t \in ActiveTexts(p) :
        \A u \in ActiveTexts(p) : PushIndex(t) <= PushIndex(u)

\* A notification is pushed on this step, into a full pool.
PushIntoFull ==
    /\ web_calls' = web_calls + 1
    /\ notifications' # notifications
    /\ \A i \in Slots : notifications[i].active

\* C24: the pool never holds more than 3 active notifications, and a push
\* into a full pool evicts the active notification pushed earliest and
\* keeps the other two.
C24_FifoEviction ==
    /\ [](Cardinality({i \in Slots : notifications[i].active}) <= 3)
    /\ [][PushIntoFull =>
             ActiveTexts(notifications') =
                 (ActiveTexts(notifications)
                     \ {EarliestPushed(notifications)})
                 \cup {PushText[web_calls + 1]}]_vars

\* Four requests before anything could expire: the pool holds the last
\* three, the first one evicted.
C24_Witness ==
    /\ now = SETUP_DELAY_MS
    /\ web_calls = 4
    /\ ActiveTexts(notifications) = {"N2", "N3", "N4"}


(***************************************************************************)
(* The configuration record and its copy in flash.  SpecConfig runs the    *)
(* loop from a first boot with the middle button in use, while             *)
(* POST /api/config arrives with documents that set one field each, in and *)
(* out of the field's range.                                               *)
(***************************************************************************)
\* The number of POST /api/config requests served in one run.
MaxConfigWrites ==
    2

ConfigWriteDocs ==
    { [data_source |-> 1], [data_source |-> 2],
      [default_mode |-> 2], [default_mode |-> 7],
      [thresh_low |-> 90], [thresh_low |-> -5],
      [alert_high |-> 300], [alert_high |-> 100000],
      [poll_interval_sec |-> 5],
      [brightness |-> 0], [brightness |-> 300],
      [night_start_hour |-> 24],
      [night_brightness |-> 256],
      [stale_timeout_min |-> 0], [stale_timeout_min |-> 10],
      [alert_snooze_min |-> 500],
      [notify_default_duration |-> 1],
      [auto_cycle_sec |-> 1],
      [weather_city |-> "Paris,FR"], [weather_city |-> ""],
      [sysmon_label |-> "GPU"] }

ConfigInstants ==
    {SETUP_DELAY_MS, SETUP_DELAY_MS + 2000}

\* handle_post_config for the next request.
handle_post_config_next(doc) ==
    /\ web_calls < MaxConfigWrites
    /\ web_calls' = web_calls + 1
    /\ post_config(doc)

InitConfig ==
    InitBuzzer

NextConfig ==
    \/ http_loop([kind |-> "http_error"])
    \/ loop_buttons("BTN_NONE")
    \/ loop_buttons("BTN_MIDDLE_SHORT")
    \/ loop_buzzer
    \/ notify_loop
    \/ loop_engine
    \/ advance_time(ConfigInstants)
    \/ \E doc \in ConfigWriteDocs : handle_post_config_next(doc)

SpecConfig ==
    InitConfig /\ [][NextConfig]_vars

\* This step is a request of the configuration API.
ConfigApiStep ==
    /\ web_calls' = web_calls + 1
    /\ \E doc \in ConfigWriteDocs : config' = config_after_post(doc)

\* C25: the configuration record has one writer: a step that changes a
\* field of it is a request of the configuration API, never the button
\* handling of the loop or another component.
C25_SingleWriter ==
    [][config' # config => ConfigApiStep]_vars

\* The configuration API has changed the data source.
C25_Witness ==
    /\ web_calls > 0
    /\ config.data_source = 1

\* The fields handle_post_config clamps lie in their ranges.
ClampedFieldsInRange ==
    /\ config.poll_interval_sec >= MIN_POLL_INTERVAL_SEC
    /\ config.brightness \in 1..255
    /\ config.night_start_hour \in 0..23
    /\ config.night_end_hour \in 0..23
    /\ config.night_brightness \in 1..255
    /\ config.stale_timeout_min \in 5..60
    /\ config.alert_snooze_min \in 1..120
    /\ config.notify_default_duration \in 5..600
    /\ config.auto_cycle_sec \in 3..300

\* C26: after any sequence of writes through POST /api/config every
\* numeric field of the record lies in its valid range: the data source in
\* {0,1}, the default mode in {0,1,2}, the thresholds and the alert limits
\* in the glucose domain 0-999, the other fields in their clamping ranges.
C26_FieldsInRange ==
    /\ ClampedFieldsInRange
    /\ config.data_source \in {0, 1}
    /\ config.default_mode \in {0, 1, 2}
    /\ \A f \in {"thresh_urgent_low", "thresh_low", "thresh_high",
                 "thresh_urgent_high", "alert_low", "alert_high"} :
          config[f] \in 0..999

\* Side of C26: the fields the handler clamps stay in range.
C26_ClampedFieldsInRange ==
    ClampedFieldsInRange

\* Two writes have been served, one of them of a brightness out of range.
C26_Witness ==
    /\ web_calls = 2
    /\ config.brightness = 255
    /\ config.auto_cycle_sec = 3

\* C27: config_save() followed by a reboot and config_init() yields a
\* record equal, field by field, to the one that was saved.
C27_RoundTrip ==
    config_init(config_save(config)) = config

\* Side of C27: the round trip holds for the records whose city and label
\* are not empty.
C27_RoundTripNonEmpty ==
    (config.weather_city # "" /\ config.sysmon_label # "")
        => config_init(config_save(config)) = config

\* A record written through the API, saved, and loaded back equal.
C27_Witness ==
    /\ config.weather_city = "Paris,FR"
    /\ prefs = config_save(config)
    /\ config_init(prefs) = config


(***************************************************************************)
(* wifi_manager and the weather client, and the whole pass of loop():      *)
(* wifi_loop, http_loop, weather_loop, the buttons and sensors, the        *)
(* feature loops, engine_loop.                                             *)
(***************************************************************************)
WIFI_CONNECT_TIMEOUT_MS ==
    15000

WIFI_RETRY_INTERVAL_MS ==
    30000

\* wifi_loop(): nothing in the access point mode or without credentials;
\* with the link up the attempt is over; with the link down an attempt
\* times out after WIFI_CONNECT_TIMEOUT_MS and a new one is started once
\* WIFI_RETRY_INTERVAL_MS have passed since the last one began.
wifi_loop ==
    IF ap_mode \/ ~config_has_wifi
    THEN UNCHANGED wifi_vars
    ELSE IF wifi_connected
    THEN /\ was_connected' = TRUE
         /\ connecting' = (IF was_connected THEN connecting ELSE FALSE)
         /\ UNCHANGED <<ap_mode, last_attempt_ms>>
    ELSE LET elapsed   == USub(now, last_attempt_ms)
             timed_out == connecting /\ elapsed > WIFI_CONNECT_TIMEOUT_MS
             pending   == connecting /\ ~timed_out
             retry     == ~pending /\ elapsed > WIFI_RETRY_INTERVAL_MS
         IN  /\ was_connected' = FALSE
             /\ connecting' = (pending \/ retry)
             /\ last_attempt_ms' = (IF retry THEN now ELSE last_attempt_ms)
             /\ UNCHANGED ap_mode

\* The interval of the weather polls.
weather_interval_ms ==
    Max(5, config.weather_poll_min) * 60 * 1000

\* weather_loop() polls now.
weather_poll_due ==
    /\ config.weather_enabled
    /\ config.weather_api_key # ""
    /\ wifi_connected
    /\ ~(weather_last_poll_ms # 0
         /\ USub(now, weather_last_poll_ms) < weather_interval_ms)

\* weather_loop().
weather_loop ==
    weather_last_poll_ms' =
        (IF weather_poll_due THEN now ELSE weather_last_poll_ms)

\* wifi_loop(), the first component of loop().
loop_wifi ==
    /\ pc = "wifi"
    /\ pc' = "http"
    /\ wifi_loop
    /\ UNCHANGED <<now, web_calls, config, prefs, wifi_connected, http_vars,
                   notifications, sysmon_last_push_ms, engine_vars,
                   buzzer_vars, display_vars, weather_last_poll_ms,
                   side_vars>>

\* weather_loop(), after http_loop().
loop_weather_blocking(ms) ==
    /\ pc = "weather"
    /\ pc' = "buttons"
    /\ weather_loop
    /\ blocked_ms' = blocked_ms + (IF weather_poll_due THEN ms ELSE 0)
    /\ UNCHANGED <<render_vars, button_vars, timer_vars, race_vars>>
    /\ UNCHANGED <<now, web_calls, config, prefs, wifi_connected, http_vars,
                   notifications, sysmon_last_push_ms, engine_vars,
                   buzzer_vars, display_vars, wifi_vars>>

\* weather_loop() with the time its request takes left out of account.
loop_weather ==
    loop_weather_blocking(0)

(***************************************************************************)
(* SpecLoop: the whole pass from boot, with a JSON endpoint configured,    *)
(* the link coming and going, polls that fail or succeed, and one          *)
(* notification pushed at any point.                                       *)
(***************************************************************************)
LoopInstants ==
    {SETUP_DELAY_MS + d : d \in {0, 2000, 6000, 70000, 130000}}

LoopOutcomes ==
    { [kind |-> "http_error"],
      [kind |-> "json", glucose |-> 120, trend |-> Label.Flat,
       message |-> "", force_mode |-> -1] }

InitLoop ==
    /\ now = SETUP_DELAY_MS
    /\ pc = "wifi"
    /\ web_calls = 0
    /\ config \in StoredConfigs
    /\ prefs = config_save(config)
    /\ wifi_connected = FALSE
    /\ sysmon_last_push_ms = 0
    /\ http_init
    /\ notify_init
    /\ buzzer_init
    /\ net_init
    /\ side_init
    /\ display_init
    /\ engine_init

NextLoop ==
    \/ loop_wifi
    \/ \E o \in LoopOutcomes : http_loop_then(o, "weather")
    \/ loop_weather
    \/ loop_buttons("BTN_NONE")
    \/ loop_buzzer
    \/ notify_loop
    \/ loop_engine
    \/ advance_time_to(LoopInstants, "wifi")
    \/ wifi_status_change
    \/ handle_post_notify("HELLO", FALSE)

SpecLoop ==
    InitLoop /\ [][NextLoop]_vars

\* The order of the components in one pass, the buttons and sensors between
\* the weather poll and the feature loops.
PassOrder ==
    <<"wifi", "http", "weather", "buttons", "buzzer", "notify", "engine",
      "end">>

\* engine_loop() runs on this step and selects a state.
EngineSelects ==
    /\ pc = "engine"
    /\ pc' = "end"
    /\ USub(now, last_render_ms) >= RENDER_INTERVAL_MS

\* C28: in every pass the components run in the fixed order wifi_loop,
\* http_loop, weather_loop, the feature loops, engine_loop last; the state
\* the engine selects is evaluate_state() of the inputs as the pass left
\* them: no notification past its expiry is active, a reading fetched in
\* this pass rules out the no-data and stale screens, and a link that is
\* down shows as no-WiFi.
C28_PassOrderAndFreshInputs ==
    /\ [][pc' # pc =>
             \E k \in 1..Len(PassOrder) :
                 /\ pc = PassOrder[k]
                 /\ pc' = PassOrder[(k % Len(PassOrder)) + 1]]_vars
    /\ [][EngineSelects =>
             /\ current_state' = evaluate_state(user_mode')
             /\ \A i \in Slots :
                   notifications[i].active => now < notifications[i].expire_ms
             /\ last_success_ms = now =>
                   current_state' \notin {STATE_NO_DATA, STATE_STALE_WARNING}
             /\ (/\ ~wifi_connected
                 /\ config_has_wifi
                 /\ USub(now, boot_start_ms) >= BOOT_SPLASH_MS) =>
                   current_state' = STATE_NO_WIFI]_vars

\* A pass in which the notification expired and a reading was fetched has
\* ended on the screen of the user's mode.
C28_Witness ==
    /\ pc = "end"
    /\ web_calls = 1
    /\ ~notify_has_active
    /\ notifications[0].text = "HELLO"
    /\ last_success_ms = now
    /\ last_render_ms = now
    /\ current_state = user_mode

(***************************************************************************)
(* SpecStall: a running device whose loop stalls.  The passes are 50 ms,   *)
(* 1 s, 700 s (more than two intervals of every periodic action) and 60 s  *)
(* apart, on a clock that wraps; one pass falls on the instant at which    *)
(* millis() reads 0.                                                       *)
(***************************************************************************)
StallWrapMs ==
    761000

StallStart ==
    ULONG_MAX - StallWrapMs + 1

StallOffsets ==
    {50, 1000, 700000, 700050, 701000, 761000, 762000, 822000}

StallConfigs ==
    { [config_set_defaults EXCEPT !.server_url = "https://example.org/bg",
                                  !.alert_enabled = TRUE,
                                  !.weather_enabled = TRUE,
                                  !.weather_api_key = "0123456789abcdef",
                                  !.weather_poll_min = 5] }

StallOutcomes ==
    { [kind |-> "http_error"],
      [kind |-> "json", glucose |-> 300, trend |-> Label.Flat,
       message |-> "", force_mode |-> -1] }

InitStall ==
    /\ pc = "wifi"
    /\ web_calls = 0
    /\ now = StallStart
    /\ config \in StallConfigs
    /\ prefs = config_save(config)
    /\ wifi_connected = TRUE
    /\ sysmon_last_push_ms = 0
    /\ dexcom_session_id = ""
    /\ dexcom_session_time_ms = 0
    /\ last_received(300, 0, 0)
    /\ current_reading.message = ""
    /\ current_reading.force_mode = -1
    /\ one_notification(FALSE)
    /\ override(FALSE)
    /\ buzzer_init
    /\ ap_mode = FALSE
    /\ connecting = FALSE
    /\ was_connected = TRUE
    /\ last_attempt_ms = SETUP_DELAY_MS
    /\ weather_last_poll_ms = now
    /\ side_init
    /\ display_init
    /\ engine_running(STATE_GLUCOSE_DISPLAY)

NextStall ==
    \/ loop_wifi
    \/ \E o \in StallOutcomes : http_loop_then(o, "weather")
    \/ loop_weather
    \/ loop_buttons("BTN_NONE")
    \/ loop_buzzer
    \/ notify_loop
    \/ loop_engine
    \/ advance_time_from_to(StallStart, StallOffsets, "wifi")

SpecStall ==
    InitStall /\ [][NextStall]_vars

\* The timestamp goes from last to last_next on this step: the action
\* fired, at least interval ms after it last did, and the timestamp is the
\* current time.
FiredOnTime(last, last_next, interval) ==
    last_next # last =>
        /\ last_next = now
        /\ USub(now, last) >= interval

\* The periodic actions of the engine fire on time.
EngineGatesOnTime ==
    /\ FiredOnTime(last_render_ms, last_render_ms', RENDER_INTERVAL_MS)
    /\ FiredOnTime(last_rebuild_ms, last_rebuild_ms', REBUILD_INTERVAL_MS + 1)
    /\ toggle_index' # toggle_index =>
          /\ last_cycle_ms' = now
          /\ USub(now, last_cycle_ms) >= config.auto_cycle_sec * 1000
    /\ FiredOnTime(last_beep_ms, last_beep_ms', BEEP_INTERVAL_MS)

\* C29: each self-gated periodic action (glucose poll, weather poll,
\* auto-cycle advance, alert burst, toggle-order rebuild, render) fires
\* only when its interval has elapsed since it last fired, at most once on
\* a pass, and rebases its timestamp to the current time, so that after a
\* stall nothing is replayed.
C29_GatesFireOnTime ==
    [][/\ EngineGatesOnTime
       /\ FiredOnTime(last_poll_ms, last_poll_ms', poll_interval_ms)
       /\ FiredOnTime(weather_last_poll_ms, weather_last_poll_ms',
                      weather_interval_ms)]_vars

\* Side of C29: the same, but for a poll that follows one made on the
\* instant at which millis() read 0.
C29_GatesFireOnTimeButZero ==
    [][/\ EngineGatesOnTime
       /\ last_poll_ms # 0 =>
             FiredOnTime(last_poll_ms, last_poll_ms', poll_interval_ms)
       /\ weather_last_poll_ms # 0 =>
             FiredOnTime(weather_last_poll_ms, weather_last_poll_ms',
                         weather_interval_ms)]_vars

\* The pass after the stall of 700 s: every action has fired, once, and
\* carries the time of the pass.
C29_Witness ==
    /\ pc = "end"
    /\ now = UAdd(StallStart, 700000)
    /\ last_poll_ms = now
    /\ weather_last_poll_ms = now
    /\ side_init
    /\ last_render_ms = now
    /\ last_rebuild_ms = now
    /\ last_cycle_ms = now
    /\ last_beep_ms = now

(***************************************************************************)
(* SpecWifi: the connectivity manager from boot, with credentials stored   *)
(* or not (the access point of the setup), the link coming up and going    *)
(* down while the radio is a station, and credentials written through      *)
(* POST /api/config.                                                       *)
(***************************************************************************)
WifiInstants ==
    {SETUP_DELAY_MS + d : d \in {0, 10000, 16000, 31000, 47000, 62000, 200000}}

WifiConfigs ==
    { config_set_defaults,
      [config_set_defaults EXCEPT !.wifi_ssid = ""] }

WifiConfigDocs ==
    { [wifi_ssid |-> "home"] }

\* The link comes up or goes down; the access point never has one.
wifi_station_change ==
    /\ ~ap_mode
    /\ wifi_status_change

InitWifi ==
    /\ now = SETUP_DELAY_MS
    /\ pc = "wifi"
    /\ web_calls = 0
    /\ config \in WifiConfigs
    /\ prefs = config_save(config)
    /\ wifi_connected = FALSE
    /\ sysmon_last_push_ms = 0
    /\ http_init
    /\ notify_init
    /\ buzzer_init
    /\ net_init
    /\ side_init
    /\ display_init
    /\ engine_init

NextWifi ==
    \/ loop_wifi
    \/ http_loop_then([kind |-> "http_error"], "weather")
    \/ loop_weather
    \/ loop_buttons("BTN_NONE")
    \/ loop_buzzer
    \/ notify_loop
    \/ loop_engine
    \/ advance_time_to(WifiInstants, "wifi")
    \/ wifi_station_change
    \/ \E doc \in WifiConfigDocs : handle_post_config_next(doc)

SpecWifi ==
    InitWifi /\ [][NextWifi]_vars

\* wifi_loop() has run on this step with credentials configured and the
\* link down.
WifiLoopUnconnected ==
    /\ pc = "wifi"
    /\ pc' = "http"
    /\ config_has_wifi
    /\ ~wifi_connected

\* After the step an attempt is in progress, begun no more than the
\* connection timeout ago, or the last one began no more than the retry
\* interval ago.
RetryKept ==
    IF connecting'
    THEN USub(now, last_attempt_ms') <= WIFI_CONNECT_TIMEOUT_MS
    ELSE USub(now, last_attempt_ms') <= WIFI_RETRY_INTERVAL_MS

\* C30: whenever credentials are configured and the device is not
\* connected, in every mode, wifi_loop() keeps retrying on the fixed
\* backoff: it leaves an attempt in progress or one due within the retry
\* interval, and a failed attempt does not stop the retrying.
C30_KeepsRetrying ==
    [][WifiLoopUnconnected => RetryKept]_vars

\* Side of C30: the same for a device that booted as a station.
C30_KeepsRetryingAsStation ==
    [][(WifiLoopUnconnected /\ ~ap_mode) => RetryKept]_vars

\* The third attempt has just begun, the first two having timed out.
C30_Witness ==
    /\ pc = "http"
    /\ now = SETUP_DELAY_MS + 62000
    /\ ~ap_mode
    /\ ~wifi_connected
    /\ ~was_connected
    /\ connecting
    /\ last_attempt_ms = now


(***************************************************************************)
(* SpecBlock: the time one pass of loop() spends in its network requests,  *)
(* against the task watchdog setup() arms and loop() feeds once per pass.  *)
(* A request takes any time up to the timeout set on it, and one that      *)
(* reaches the timeout has failed.                                         *)
(***************************************************************************)
WDT_TIMEOUT_SEC ==
    30

\* http.setTimeout() of dexcom_post() and of the fetch of
\* dexcom_fetch_glucose().
DEXCOM_HTTP_TIMEOUT_MS ==
    15000

\* http.setTimeout() of generic_fetch().
GENERIC_HTTP_TIMEOUT_MS ==
    10000

\* http.setTimeout() of weather_do_fetch().
WEATHER_HTTP_TIMEOUT_MS ==
    10000

\* The times a request with the timeout given takes: a prompt answer, a
\* slow one, and none.
RequestTimes(timeout) ==
    {200, timeout - 1000, timeout}

\* dexcom_login(): the time its requests take, the first one alone when
\* it fails (step = 1).
dexcom_login_ms(step, t1, t2) ==
    IF step = 1 THEN t1 ELSE t1 + t2

\* The time dexcom_fetch_glucose() blocks for outcome o: the two requests
\* of dexcom_login() when the session is missing or old, then the fetch.
dexcom_fetch_ms(o, step, t1, t2, t3) ==
    IF dexcom_needs_login
    THEN IF o.kind = "login_fail" THEN dexcom_login_ms(step, t1, t2)
         ELSE dexcom_login_ms(2, t1, t2) + t3
    ELSE t3

\* Whether the times of the requests agree with outcome o: a request that
\* was answered took less than its timeout.
dexcom_times_agree(o, step, t1, t2, t3) ==
    /\ (dexcom_needs_login /\ o.kind = "login_fail" /\ step = 2)
           => t1 < DEXCOM_HTTP_TIMEOUT_MS
    /\ (dexcom_needs_login /\ o.kind # "login_fail")
           => (t1 < DEXCOM_HTTP_TIMEOUT_MS /\ t2 < DEXCOM_HTTP_TIMEOUT_MS)
    /\ o.kind \in {"json", "http_500"} => t3 < DEXCOM_HTTP_TIMEOUT_MS

\* http_loop() polling Dexcom Share.
http_loop_dexcom(o, step, t1, t2, t3) ==
    /\ config.data_source = 1
    /\ dexcom_times_agree(o, step, t1, t2, t3)
    /\ http_loop_blocking(o, "weather", dexcom_fetch_ms(o, step, t1, t2, t3))

\* http_loop() polling the JSON endpoint.
http_loop_generic(o, t) ==
    /\ config.data_source # 1
    /\ (o.kind = "json" => t < GENERIC_HTTP_TIMEOUT_MS)
    /\ http_loop_blocking(o, "weather", t)

\* The pass ends and the next one starts with esp_task_wdt_reset(), at the
\* first instant of set S after the time the pass was blocked.
loop_wdt_reset(S) ==
    /\ pc = "end"
    /\ pc' = "wifi"
    /\ \E t \in S :
          /\ t > now
          /\ t >= now + blocked_ms
          /\ \A u \in S : (u > now /\ u >= now + blocked_ms) => t <= u
          /\ now' = t
    /\ blocked_ms' = 0
    /\ UNCHANGED <<render_vars, button_vars, timer_vars, race_vars>>
    /\ UNCHANGED <<web_calls, config, prefs, wifi_connected, http_vars,
                   notifications, sysmon_last_push_ms, engine_vars,
                   buzzer_vars, display_vars, net_vars>>

BlockInstants ==
    {SETUP_DELAY_MS + d : d \in {0, 20000, 60000, 400000, 3700000}}

BlockConfigs ==
    { [config_set_defaults EXCEPT !.data_source = 1,
                                  !.dexcom_username = "dex_user",
                                  !.dexcom_password = "dex_pass",
                                  !.weather_enabled = TRUE,
                                  !.weather_api_key = "0123456789abcdef"],
      [config_set_defaults EXCEPT !.server_url = "https://example.org/bg",
                                  !.weather_enabled = TRUE,
                                  !.weather_api_key = "0123456789abcdef"] }

BlockDexcomOutcomes ==
    { [kind |-> "login_fail"], [kind |-> "http_error"],
      [kind |-> "http_500"],
      [kind |-> "json", glucose |-> 120, trend_kind |-> "int",
       trend_num |-> 4, trend |-> <<>>] }

BlockGenericOutcomes ==
    { [kind |-> "http_error"],
      [kind |-> "json", glucose |-> 120, trend |-> Label.Flat,
       message |-> "", force_mode |-> -1] }

InitBlock ==
    /\ now = SETUP_DELAY_MS
    /\ pc = "wifi"
    /\ web_calls = 0
    /\ config \in BlockConfigs
    /\ prefs = config_save(config)
    /\ wifi_connected = TRUE
    /\ sysmon_last_push_ms = 0
    /\ http_init
    /\ notify_init
    /\ buzzer_init
    /\ net_init
    /\ side_init
    /\ display_init
    /\ engine_init

NextBlock ==
    \/ loop_wifi
    \/ \E o \in BlockDexcomOutcomes, step \in {1, 2},
          t1, t2, t3 \in RequestTimes(DEXCOM_HTTP_TIMEOUT_MS) :
          http_loop_dexcom(o, step, t1, t2, t3)
    \/ \E o \in BlockGenericOutcomes,
          t \in RequestTimes(GENERIC_HTTP_TIMEOUT_MS) :
          http_loop_generic(o, t)
    \/ \E t \in RequestTimes(WEATHER_HTTP_TIMEOUT_MS) :
          loop_weather_blocking(t)
    \/ loop_buttons("BTN_NONE")
    \/ loop_buzzer
    \/ notify_loop
    \/ loop_engine
    \/ loop_wdt_reset(BlockInstants)

SpecBlock ==
    InitBlock /\ [][NextBlock]_vars

\* The watchdog has not been fed for its timeout: the device restarts.
wdt_expired ==
    blocked_ms >= WDT_TIMEOUT_SEC * 1000

\* C31: the time one pass of loop() is blocked in its network requests (the
\* two requests of a Dexcom login, the glucose fetch and the weather fetch
\* at worst, each up to its timeout) stays below the 30 s of the watchdog,
\* so the watchdog never restarts the device over a slow server.
C31_BlockedBelowWatchdog ==
    ~wdt_expired

\* A pass that logged in, fetched and polled the weather has been blocked
\* for longer than the watchdog allows, with every request answered.
C31_Witness ==
    /\ pc = "buttons"
    /\ config.data_source = 1
    /\ dexcom_session_id = "session"
    /\ current_reading.valid
    /\ weather_last_poll_ms = now
    /\ blocked_ms > WDT_TIMEOUT_SEC * 1000


(***************************************************************************)
(* SpecStale: what render_state() draws on the glucose screen while the    *)
(* reading ages from fresh through the stale warning to the stale screen,  *)
(* with polls that fail, succeed or bring a reading without a value, the   *)
(* user leaving the glucose screen and coming back.                        *)
(***************************************************************************)
DELTA_FLASH_DURATION_MS ==
    3000

\* Whether render_state() finds the reading in its stale warning.
stale_warning ==
    LET age == http_time_since_last_reading
    IN  /\ age >= STALE_WARNING_MS
        /\ age < config.stale_timeout_min * 60 * 1000

\* case STATE_GLUCOSE_DISPLAY of render_state(): "---" without a valid
\* reading; else the delta while its flash runs, else the number, with the
\* '!' during the stale warning.
render_glucose ==
    IF ~current_reading.valid
    THEN /\ drawn' = [text |-> "---", indicator |-> FALSE]
         /\ UNCHANGED <<last_seen_glucose, delta_flash_start_ms,
                        delta_flash_active>>
    ELSE LET glucose  == current_reading.glucose
             starts   == /\ config.show_delta
                         /\ glucose # last_seen_glucose
                         /\ last_seen_glucose > 0
             start1   == IF starts THEN now ELSE delta_flash_start_ms
             flashing == /\ (starts \/ delta_flash_active)
                         /\ USub(now, start1) < DELTA_FLASH_DURATION_MS
         IN  /\ last_seen_glucose' =
                    (IF starts \/ last_seen_glucose = 0 THEN glucose
                     ELSE last_seen_glucose)
             /\ delta_flash_start_ms' = start1
             /\ delta_flash_active' = flashing
             /\ drawn' = IF flashing
                         THEN [text |-> "delta", indicator |-> FALSE]
                         ELSE [text |-> "glucose",
                               indicator |-> stale_warning]

\* The content render_state(state) draws.
render_content(state) ==
    IF state = STATE_GLUCOSE_DISPLAY THEN render_glucose
    ELSE /\ drawn' = IF state \in DisplayState
                     THEN [text |-> "other", indicator |-> FALSE] ELSE drawn
         /\ UNCHANGED <<last_seen_glucose, delta_flash_start_ms,
                        delta_flash_active>>

\* engine_loop() as the last component of loop(), with the content of the
\* frame it draws.
loop_engine_drawing ==
    /\ pc = "engine"
    /\ pc' = "end"
    /\ engine_loop
    /\ IF USub(now, last_render_ms) < RENDER_INTERVAL_MS
       THEN UNCHANGED render_vars
       ELSE render_content(current_state')
    /\ UNCHANGED <<now, web_calls, config, prefs, wifi_connected, http_vars,
                   notifications, sysmon_last_push_ms, ldr_smoothed,
                   time_available, time_hour, net_vars, blocked_ms,
                   button_vars, timer_vars, race_vars>>

StaleOffsets ==
    {3000, 4000, 603000, 604000, 605000, 1204000, 1205000, 1210000,
     1803000}

StaleConfigs ==
    { [config_set_defaults EXCEPT !.server_url = "https://example.org/bg",
                                  !.poll_interval_sec = p,
                                  !.show_delta = d] :
          p \in {600, 1800}, d \in BOOLEAN }

StaleOutcomes ==
    { [kind |-> "http_error"] } \cup
    { [kind |-> "json", glucose |-> g, trend |-> Label.Flat,
       message |-> "", force_mode |-> -1] : g \in {0, 120, 150} }

InitStale ==
    /\ now = SETUP_DELAY_MS
    /\ pc = "http"
    /\ web_calls = 0
    /\ config \in StaleConfigs
    /\ prefs = config_save(config)
    /\ wifi_connected = TRUE
    /\ sysmon_last_push_ms = 0
    /\ http_init
    /\ notify_init
    /\ buzzer_init
    /\ net_init
    /\ side_init
    /\ display_init
    /\ engine_init

NextStale ==
    \/ \E o \in StaleOutcomes : http_loop(o)
    \/ \E evt \in {"BTN_NONE", "BTN_LEFT_SHORT", "BTN_RIGHT_SHORT"} :
          loop_buttons(evt)
    \/ loop_buzzer
    \/ notify_loop
    \/ loop_engine_drawing
    \/ advance_time_from(SETUP_DELAY_MS, StaleOffsets)

SpecStale ==
    InitStale /\ [][NextStale]_vars

\* engine_loop() draws a frame on this step.
EngineDraws ==
    /\ pc = "engine"
    /\ pc' = "end"
    /\ USub(now, last_render_ms) >= RENDER_INTERVAL_MS

\* The last success is at least 10 minutes old and the stale screen is not
\* due: the age is below the timeout and fewer than 5 polls have failed.
SoftStale ==
    /\ ever_received
    /\ http_time_since_last_reading >= 10 * 60 * 1000
    /\ http_time_since_last_reading < config.stale_timeout_min * 60 * 1000
    /\ failure_count < 5

\* Rules 7 to 10 of the state selection: the override, the mode the
\* reading forces, its message, the mode of the user.
ContentState(um) ==
    IF state_forced THEN forced_state
    ELSE IF current_reading.valid /\ current_reading.force_mode >= 0
    THEN current_reading.force_mode
    ELSE IF current_reading.valid /\ current_reading.message # ""
    THEN STATE_MESSAGE_DISPLAY
    ELSE um

\* The status screens of rules 1 to 5.
StatusStates ==
    {STATE_BOOT, STATE_NO_WIFI, STATE_NO_CFG, STATE_NOTIFY_DISPLAY,
     STATE_NO_DATA}

\* During the soft-stale window the state selected is a status screen of
\* the earlier rules or the one of rules 7 to 10, never the stale screen.
SoftStaleKeepsState ==
    [][(EngineDraws /\ SoftStale) =>
           \/ current_state' \in StatusStates
           \/ current_state' = ContentState(user_mode')]_vars

\* Below 10 minutes the glucose screen carries no '!' and a valid reading
\* is drawn at the full brightness.
FreshNotDimmed ==
    [][(/\ EngineDraws
        /\ ever_received
        /\ http_time_since_last_reading < 10 * 60 * 1000
        /\ current_state' = STATE_GLUCOSE_DISPLAY) =>
           /\ ~drawn'.indicator
           /\ current_reading.valid =>
                  current_brightness' = effective_brightness]_vars

\* C32: while the last success is at least 10 minutes old, the stale screen
\* not being due, the state selected is the one of rules 7 to 10, and on
\* the glucose screen the number is drawn, at a third of the brightness
\* otherwise used and with the '!'; below 10 minutes the screen is neither
\* dimmed nor marked.
C32_SoftStaleKeepsNumber ==
    /\ SoftStaleKeepsState
    /\ FreshNotDimmed
    /\ [][(/\ EngineDraws
           /\ SoftStale
           /\ current_state' = STATE_GLUCOSE_DISPLAY) =>
              /\ drawn' = [text |-> "glucose", indicator |-> TRUE]
              /\ current_brightness' = effective_brightness \div 3]_vars

\* The same with a valid reading in the slot and no delta flash running.
C32_SoftStaleKeepsValidNumber ==
    /\ SoftStaleKeepsState
    /\ FreshNotDimmed
    /\ [][(/\ EngineDraws
           /\ SoftStale
           /\ current_state' = STATE_GLUCOSE_DISPLAY
           /\ current_reading.valid
           /\ drawn'.text # "delta") =>
              /\ drawn' = [text |-> "glucose", indicator |-> TRUE]
              /\ current_brightness' = effective_brightness \div 3]_vars

\* The glucose screen was drawn in the soft-stale window, the reading in
\* the slot being the one of the last success.
C32_Witness ==
    /\ pc = "end"
    /\ last_render_ms = now
    /\ SoftStale
    /\ current_state = STATE_GLUCOSE_DISPLAY
    /\ current_reading.valid
    /\ drawn = [text |-> "glucose", indicator |-> TRUE]
    /\ current_brightness = effective_brightness \div 3

\* The glucose screen was drawn in the soft-stale window without the
\* number: "---" of a reading without a value.
C32_WitnessDashes ==
    /\ pc = "end"
    /\ last_render_ms = now
    /\ SoftStale
    /\ current_state = STATE_GLUCOSE_DISPLAY
    /\ drawn.text = "---"

\* The glucose screen was drawn in the soft-stale window with the delta in
\* place of the number.
C32_WitnessDelta ==
    /\ pc = "end"
    /\ last_render_ms = now
    /\ SoftStale
    /\ current_state = STATE_GLUCOSE_DISPLAY
    /\ drawn.text = "delta"


(***************************************************************************)
(* The soft-stale window of render_state(), from STALE_WARNING_MS to the   *)
(* stale timeout of the configuration, under the writes of SpecConfig.     *)
(***************************************************************************)
\* The stale timeout of evaluate_state() and render_state(), in ms.
stale_ms ==
    config.stale_timeout_min * 60 * 1000

\* C33: for every stale_timeout_min the configuration write accepts, the
\* threshold of the soft warning (10 minutes) is strictly below the hard
\* timeout, so that there are ages at which the warning is shown.
C33_SoftWindowNonEmpty ==
    STALE_WARNING_MS < stale_ms

\* The window is non-empty for the timeouts above 10 minutes, and the
\* timeout stored is one of 5 to 60 minutes.
C33_SoftWindowAboveTen ==
    /\ config.stale_timeout_min \in 5..60
    /\ config.stale_timeout_min > 10 => STALE_WARNING_MS < stale_ms

\* A write has stored a stale timeout of 10 minutes, as sent.
C33_Witness ==
    /\ web_calls > 0
    /\ config.stale_timeout_min = 10
    /\ prefs.stale_min = 10
    /\ stale_ms = STALE_WARNING_MS


(***************************************************************************)
(* SpecBoot: the boot splash, from engine_init() through the passes of the *)
(* first seconds and on to the passes around the wrap of millis(), with    *)
(* readings that force a mode, the override, a notification and the link   *)
(* coming and going.                                                       *)
(***************************************************************************)
\* The instants of the passes in the order of time: the first seconds, a
\* minute later, the last second before millis() wraps and the first
\* seconds after it.
SplashInstants ==
    <<SETUP_DELAY_MS, SETUP_DELAY_MS + 1000, SETUP_DELAY_MS + 1900,
      SETUP_DELAY_MS + 2000, SETUP_DELAY_MS + 6000, SETUP_DELAY_MS + 70000,
      ULONG_MAX - 1000, 50, SETUP_DELAY_MS + 50, SETUP_DELAY_MS + 1050,
      SETUP_DELAY_MS + 2050>>

\* The next pass of loop() starts at the instant that follows now in seq.
advance_time_along(seq) ==
    /\ pc = "end"
    /\ \E i \in 1..(Len(seq) - 1) :
          /\ seq[i] = now
          /\ now' = seq[i + 1]
    /\ pc' = "http"
    /\ UNCHANGED <<web_calls, config, prefs, wifi_connected, http_vars,
                   notifications, sysmon_last_push_ms, engine_vars,
                   buzzer_vars>>
    /\ UNCHANGED <<display_vars, net_vars, side_vars>>

BootOutcomes ==
    { [kind |-> "http_error"] } \cup
    { [kind |-> "json", glucose |-> 120, trend |-> Label.Flat,
       message |-> "", force_mode |-> m] : m \in {-1, STATE_BOOT} }

InitBoot ==
    /\ now = SETUP_DELAY_MS
    /\ pc = "http"
    /\ web_calls = 0
    /\ config \in StoredConfigs
    /\ prefs = config_save(config)
    /\ wifi_connected \in BOOLEAN
    /\ sysmon_last_push_ms = 0
    /\ http_init
    /\ notify_init
    /\ buzzer_init
    /\ net_init
    /\ side_init
    /\ display_init
    /\ engine_init

NextBoot ==
    \/ \E o \in BootOutcomes : http_loop(o)
    \/ loop_buttons("BTN_NONE")
    \/ loop_buzzer
    \/ notify_loop
    \/ loop_engine
    \/ advance_time_along(SplashInstants)
    \/ wifi_status_change
    \/ handle_test_weather_mock
    \/ handle_post_notify("HELLO", FALSE)

SpecBoot ==
    InitBoot /\ [][NextBoot]_vars

\* engine_loop() selects a state on this step.
EngineTick ==
    /\ pc = "engine"
    /\ pc' = "end"
    /\ USub(now, last_render_ms) >= RENDER_INTERVAL_MS

\* Within 2 s of engine_init() every tick selects BOOT.
BootDuringSplash ==
    [][(EngineTick /\ USub(now, boot_start_ms) < 2000) =>
           current_state' = STATE_BOOT]_vars

\* C34: BOOT is the state selected on every engine tick within 2 s of
\* engine_init(), and on no tick after the splash window: not on the first
\* tick past the 2 s, and never again once another state was selected,
\* whatever override or reading arrives.
C34_BootOnlyDuringSplash ==
    /\ BootDuringSplash
    /\ [][(EngineTick /\ USub(now, boot_start_ms) >= 2000) =>
              current_state' # STATE_BOOT]_vars
    /\ [][(EngineTick /\ current_state # STATE_BOOT) =>
              current_state' # STATE_BOOT]_vars

\* BOOT is selected within 2 s of boot_start_ms as millis() counts them,
\* and past them only for a valid reading whose force_mode is 0.
C34_BootDuringSplashOrForced ==
    /\ BootDuringSplash
    /\ [][(/\ EngineTick
           /\ USub(now, boot_start_ms) >= 2000
           /\ current_state' = STATE_BOOT) =>
              /\ current_reading.valid
              /\ current_reading.force_mode = STATE_BOOT]_vars

\* The splash was shown on the ticks of the first 2 s and the first tick
\* past them has selected another state.
C34_Witness ==
    /\ pc = "end"
    /\ now = SETUP_DELAY_MS + 2000
    /\ last_render_ms = now
    /\ current_state # STATE_BOOT

\* BOOT is selected again on a tick after millis() has wrapped, with no
\* reading that forces a mode.
C34_WitnessWrap ==
    /\ pc = "end"
    /\ now = SETUP_DELAY_MS + 1050
    /\ last_render_ms = now
    /\ current_state = STATE_BOOT
    /\ current_reading.force_mode = -1


(***************************************************************************)
(* The toggle order under SpecNav: engine_init() with a default mode that  *)
(* is or is not in the order, the buttons, the auto-cycle, the periodic    *)
(* rebuild, configuration writes and the navigation of the web API.        *)
(***************************************************************************)
\* toggle_count, the number of entries of toggle_order in use.
toggle_count ==
    Len(toggle_order)

\* C35: after engine_init() and after every operation of the engine,
\* toggle_count >= 3, 0 <= toggle_index < toggle_count and user_mode is
\* toggle_order[toggle_index].
C35_ToggleIndexNamesUserMode ==
    /\ toggle_count >= 3
    /\ toggle_index >= 0
    /\ toggle_index < toggle_count
    /\ user_mode = toggle_at(toggle_order, toggle_index)

\* The bounds alone: at least the three fixed entries, and an index within
\* the entries in use.
C35_ToggleIndexInRange ==
    /\ toggle_count >= 3
    /\ toggle_index >= 0
    /\ toggle_index < toggle_count

\* A toggle has moved the index off the first entry, user_mode being the
\* entry at the index.
C35_Witness ==
    /\ config.default_mode = 0
    /\ toggle_run.calls > 0
    /\ toggle_index > 0
    /\ user_mode = toggle_at(toggle_order, toggle_index)


(***************************************************************************)
(* SpecPool: the notification pool under pushes of either urgency and of   *)
(* two durations, and the expiries of notify_loop(), read through          *)
(* notify_get_text() and notify_is_urgent().                               *)
(***************************************************************************)
\* The slot notify_get_text() and notify_is_urgent() read in pool p: the
\* active one of the highest index, -1 when none is active.
notify_current_slot(p) ==
    IF \E i \in Slots : p[i].active
    THEN CHOOSE i \in Slots :
             /\ p[i].active
             /\ \A j \in Slots : (j > i) => ~p[j].active
    ELSE -1

\* notify_get_text().
notify_get_text(p) ==
    IF notify_current_slot(p) >= 0 THEN p[notify_current_slot(p)].text
    ELSE ""

\* notify_is_urgent().
notify_is_urgent(p) ==
    IF notify_current_slot(p) >= 0 THEN p[notify_current_slot(p)].urgent
    ELSE FALSE

\* handle_post_notify for the next request, of the duration and the
\* urgency given.
handle_post_notify_urgency(duration_sec, urgent) ==
    /\ web_calls < MaxPushes
    /\ web_calls' = web_calls + 1
    /\ post_notify(PushText[web_calls + 1], duration_sec, urgent)

InitPool ==
    InitBuzzer

NextPool ==
    \/ http_loop([kind |-> "http_error"])
    \/ loop_buttons("BTN_NONE")
    \/ loop_buzzer
    \/ notify_loop
    \/ loop_engine
    \/ advance_time(NotifyInstants)
    \/ \E d \in PushDurations, u \in BOOLEAN :
          handle_post_notify_urgency(d, u)

SpecPool ==
    InitPool /\ [][NextPool]_vars

\* The slot of the active notification of pool p that was pushed last.
LatestPushedSlot(p) ==
    CHOOSE i \in Slots :
        /\ p[i].active
        /\ \A j \in Slots :
               p[j].active => PushIndex(p[j].text) <= PushIndex(p[i].text)

\* C36: under every interleaving of pushes and expiries, notify_get_text()
\* and notify_is_urgent() describe one notification, the one pushed last
\* among those still active; with none active the text is empty and the
\* urgency false.
C36_TextAndUrgencyOfLatest ==
    IF \E i \in Slots : notifications[i].active
    THEN LET latest == notifications[LatestPushedSlot(notifications)]
         IN  /\ notify_get_text(notifications) = latest.text
             /\ notify_is_urgent(notifications) = latest.urgent
    ELSE /\ notify_get_text(notifications) = ""
         /\ notify_is_urgent(notifications) = FALSE

\* The two describe one active notification, the one of the highest slot.
C36_TextAndUrgencyOfOneSlot ==
    IF \E i \in Slots : notifications[i].active
    THEN \E i \in Slots :
             /\ notifications[i].active
             /\ \A j \in Slots : (j > i) => ~notifications[j].active
             /\ notify_get_text(notifications) = notifications[i].text
             /\ notify_is_urgent(notifications) = notifications[i].urgent
    ELSE /\ notify_get_text(notifications) = ""
         /\ notify_is_urgent(notifications) = FALSE

\* Two notifications of different urgency are active, one has expired, and
\* the text and the urgency read are those of the one pushed last.
C36_Witness ==
    /\ web_calls >= 3
    /\ Cardinality({i \in Slots : notifications[i].active}) = 2
    /\ \E i, j \in Slots :
          /\ notifications[i].active /\ notifications[j].active
          /\ notifications[i].urgent # notifications[j].urgent
    /\ notify_get_text(notifications) = PushText[web_calls]
    /\ notify_is_urgent(notifications) =
           notifications[LatestPushedSlot(notifications)].urgent


(***************************************************************************)
(* SpecButtons: the three buttons polled once per pass, the pins changing  *)
(* between the passes: glitches, short and long presses, one button or     *)
(* several at a time.                                                      *)
(***************************************************************************)
DEBOUNCE_MS ==
    50

LONG_PRESS_MS ==
    1000

\* The events of button i (0 left, 1 middle, 2 right).
ShortEvent ==
    <<"BTN_LEFT_SHORT", "BTN_MIDDLE_SHORT", "BTN_RIGHT_SHORT">>

LongEvent ==
    <<"BTN_LEFT_LONG", "BTN_MIDDLE_LONG", "BTN_RIGHT_LONG">>

\* One iteration of the loop of buttons_loop(): button i with state b reads
\* level r of its pin.  The result is the state it is left in, and the
\* event it stores in pending_event, "BTN_NONE" when it stores none.
button_step(b, r, i) ==
    LET debounce_time == IF r # b.last_raw THEN now ELSE b.debounce_time
        is_pressed    == ~r
        just_pressed  == is_pressed /\ ~b.pressed
        pressed       == b.pressed \/ just_pressed
        press_start   == IF just_pressed THEN now ELSE b.press_start
        long_before   == IF just_pressed THEN FALSE ELSE b.long_fired
        long_now      == /\ is_pressed /\ pressed /\ ~long_before
                         /\ USub(now, press_start) >= LONG_PRESS_MS
        released      == ~is_pressed /\ pressed
    IN  IF USub(now, debounce_time) < DEBOUNCE_MS
        THEN [state |-> [b EXCEPT !.last_raw = r,
                                  !.debounce_time = debounce_time],
              evt   |-> "BTN_NONE"]
        ELSE [state |-> [last_raw      |-> r,
                         pressed       |-> pressed /\ ~released,
                         debounce_time |-> debounce_time,
                         press_start   |-> press_start,
                         long_fired    |-> long_before \/ long_now],
              evt   |-> IF long_now THEN LongEvent[i + 1]
                        ELSE IF released /\ ~long_before
                        THEN ShortEvent[i + 1]
                        ELSE "BTN_NONE"]

\* pending_event after buttons_loop(): the event of the last button of
\* the loop that stored one.
buttons_pending ==
    LET evt(i) == button_step(buttons[i], raw[i], i).evt
    IN  IF evt(2) # "BTN_NONE" THEN evt(2)
        ELSE IF evt(1) # "BTN_NONE" THEN evt(1)
        ELSE evt(0)

\* buttons_loop(), buttons_get_event() and the dispatch of the event
\* returned.
loop_buttons_polled ==
    /\ buttons' = [i \in 0..2 |-> button_step(buttons[i], raw[i], i).state]
    /\ last_event' = buttons_pending
    /\ loop_buttons_dispatch(buttons_pending)
    /\ UNCHANGED <<raw, blocked_ms, render_vars, timer_vars, race_vars>>

\* The level of the pin of button i changes between two passes.
pin_change(i) ==
    /\ pc = "end"
    /\ raw' = [raw EXCEPT ![i] = ~@]
    /\ UNCHANGED <<now, pc, web_calls, config, prefs, wifi_connected,
                   http_vars, notifications, sysmon_last_push_ms,
                   engine_vars, buzzer_vars, display_vars, net_vars,
                   blocked_ms, render_vars, buttons, last_event,
                   timer_vars, race_vars>>

ButtonInstants ==
    {SETUP_DELAY_MS + d : d \in {0, 20, 60, 120, 1130, 1200}}

InitButtons ==
    /\ now = SETUP_DELAY_MS
    /\ pc = "http"
    /\ web_calls = 0
    /\ config = config_set_defaults
    /\ prefs = config_save(config)
    /\ wifi_connected = FALSE
    /\ sysmon_last_push_ms = 0
    /\ http_init
    /\ notify_init
    /\ buzzer_init
    /\ net_init
    /\ side_init
    /\ display_init
    /\ engine_init

NextButtons ==
    \/ http_loop([kind |-> "http_error"])
    \/ loop_buttons_polled
    \/ loop_buzzer
    \/ notify_loop
    \/ loop_engine
    \/ advance_time(ButtonInstants)
    \/ \E i \in 0..2 : pin_change(i)

SpecButtons ==
    InitButtons /\ [][NextButtons]_vars

\* buttons_loop() and buttons_get_event() run on this step.
ButtonsPolled ==
    /\ pc = "buttons"
    /\ pc' = "buzzer"

\* Button i ends a debounced press on this step.
Released(i) ==
    buttons[i].pressed /\ ~buttons'[i].pressed

\* Button i reaches the long press on this step.
LongReached(i) ==
    ~buttons[i].long_fired /\ buttons'[i].pressed /\ buttons'[i].long_fired

\* The event button i owes on this step: LONG when its press reaches
\* 1000 ms, SHORT when a press that has fired no LONG ends.
EventOwed(i) ==
    IF LongReached(i) THEN LongEvent[i + 1]
    ELSE IF Released(i) /\ ~buttons[i].long_fired THEN ShortEvent[i + 1]
    ELSE "BTN_NONE"

\* A press reaches LONG only when it has lasted 1000 ms, and a level that
\* changed less than 50 ms ago starts and ends no press.
PressesWellFormed ==
    [][ButtonsPolled =>
          \A i \in 0..2 :
              /\ LongReached(i) =>
                     USub(now, buttons'[i].press_start) >= LONG_PRESS_MS
              /\ USub(now, buttons'[i].debounce_time) < DEBOUNCE_MS =>
                     /\ buttons'[i].pressed = buttons[i].pressed
                     /\ buttons'[i].long_fired = buttons[i].long_fired]_vars

\* C37: each debounced press-and-release of each of the three buttons
\* produces exactly one event, returned by the buttons_get_event() call of
\* the pass (LONG at 1000 ms, or SHORT on the release of a shorter press),
\* also when several buttons change in one pass; a contact change shorter
\* than the 50 ms of the debounce produces none.
C37_EveryPressOneEvent ==
    /\ PressesWellFormed
    /\ [][ButtonsPolled =>
             /\ \A i \in 0..2 :
                    EventOwed(i) # "BTN_NONE" => last_event' = EventOwed(i)
             /\ (\A i \in 0..2 : EventOwed(i) = "BTN_NONE") =>
                    last_event' = "BTN_NONE"]_vars

\* The same for the passes in which one button at most owes an event.
C37_EveryPressOneEventAlone ==
    /\ PressesWellFormed
    /\ [][(/\ ButtonsPolled
           /\ Cardinality({i \in 0..2 : EventOwed(i) # "BTN_NONE"}) <= 1) =>
             /\ \A i \in 0..2 :
                    EventOwed(i) # "BTN_NONE" => last_event' = EventOwed(i)
             /\ (\A i \in 0..2 : EventOwed(i) = "BTN_NONE") =>
                    last_event' = "BTN_NONE"]_vars

\* A press of the left button has lasted 1000 ms and its LONG event was
\* returned, the other buttons never pressed.
C37_Witness ==
    /\ pc = "buzzer"
    /\ buttons[0].pressed /\ buttons[0].long_fired
    /\ last_event = "BTN_LEFT_LONG"
    /\ \A i \in 1..2 : ~buttons[i].pressed /\ buttons[i].press_start = 0

\* A press of the middle button has ended before 1000 ms and its SHORT
\* event was returned.
C37_WitnessShort ==
    /\ pc = "buzzer"
    /\ ~buttons[1].pressed /\ ~buttons[1].long_fired
    /\ buttons[1].press_start > 0
    /\ last_event = "BTN_MIDDLE_SHORT"

\* Two buttons were released in one pass and one event was returned.
C37_WitnessTwoReleased ==
    /\ pc = "buzzer"
    /\ last_event = "BTN_RIGHT_SHORT"
    /\ ~buttons[0].pressed /\ ~buttons[0].long_fired
    /\ buttons[0].press_start = buttons[2].press_start
    /\ buttons[0].debounce_time = buttons[2].debounce_time
    /\ buttons[0].debounce_time > buttons[0].press_start


(***************************************************************************)
(* SpecTimer: the pomodoro timer, started, paused, resumed and reset with  *)
(* the right button on the timer screen and advanced by timer_loop(), for  *)
(* 1 to 3 sessions per cycle.                                              *)
(***************************************************************************)
\* The timer counts down in state st.
timer_counting(st) ==
    st \in {TIMER_RUNNING, TIMER_BREAK, TIMER_LONG_BREAK}

\* timer_loop(): the phase in force has run out.
timer_finished ==
    /\ timer_counting(timer_state)
    /\ USub(now, timer_start_ms) >= timer_duration_ms

\* timer_loop().
timer_loop ==
    IF ~timer_finished THEN UNCHANGED <<timer_vars, buzzer_vars>>
    ELSE /\ IF config.timer_buzzer THEN buzzer_beep(3, 2000, 200)
            ELSE UNCHANGED buzzer_vars
         /\ timer_start_ms' = now
         /\ UNCHANGED timer_paused_remaining_ms
         /\ IF timer_state = TIMER_RUNNING
            THEN /\ IF timer_current_session >= config.timer_sessions
                    THEN /\ timer_state' = TIMER_LONG_BREAK
                         /\ timer_duration_ms' =
                                config.timer_long_break_min * 60000
                         /\ timer_current_session' = 1
                    ELSE /\ timer_state' = TIMER_BREAK
                         /\ timer_duration_ms' = config.timer_break_min * 60000
                         /\ UNCHANGED timer_current_session
                 /\ timer_log' = [timer_log EXCEPT !.works_done = @ + 1]
            ELSE /\ timer_current_session' = timer_current_session + 1
                 /\ timer_state' = TIMER_RUNNING
                 /\ timer_duration_ms' = config.timer_work_min * 60000
                 /\ UNCHANGED timer_log

\* timer_toggle_start_pause().
timer_toggle_start_pause ==
    IF timer_state \in {TIMER_IDLE, TIMER_DONE}
    THEN /\ timer_state' = TIMER_RUNNING
         /\ timer_duration_ms' = config.timer_work_min * 60000
         /\ timer_start_ms' = now
         /\ timer_current_session' = 1
         /\ timer_log' = timer_log_none
         /\ UNCHANGED timer_paused_remaining_ms
    ELSE IF timer_counting(timer_state)
    THEN LET elapsed == USub(now, timer_start_ms)
         IN  /\ timer_paused_remaining_ms' =
                    (IF timer_duration_ms > elapsed
                     THEN timer_duration_ms - elapsed ELSE 0)
             /\ timer_state' = TIMER_PAUSED
             /\ timer_log' = [timer_log EXCEPT !.paused_phase = timer_state,
                                               !.paused = TRUE]
             /\ UNCHANGED <<timer_start_ms, timer_current_session,
                            timer_duration_ms>>
    ELSE /\ timer_state' = TIMER_RUNNING
         /\ timer_duration_ms' = timer_paused_remaining_ms
         /\ timer_start_ms' = now
         /\ UNCHANGED <<timer_paused_remaining_ms, timer_current_session,
                        timer_log>>

\* timer_reset().
timer_reset ==
    /\ timer_state' = TIMER_IDLE
    /\ timer_duration_ms' = config.timer_work_min * 60000
    /\ timer_paused_remaining_ms' = config.timer_work_min * 60000
    /\ timer_current_session' = 1
    /\ timer_log' = timer_log_none
    /\ UNCHANGED timer_start_ms

\* The button dispatch of loop() with the timer: on the timer screen the
\* right button starts, pauses and resumes it, and a long press resets it.
loop_buttons_timer(evt) ==
    /\ loop_buttons_dispatch(evt)
    /\ IF user_mode = STATE_TIMER_DISPLAY /\ evt = "BTN_RIGHT_SHORT"
       THEN timer_toggle_start_pause
       ELSE IF user_mode = STATE_TIMER_DISPLAY /\ evt = "BTN_RIGHT_LONG"
       THEN timer_reset
       ELSE UNCHANGED timer_vars
    /\ UNCHANGED <<blocked_ms, render_vars, button_vars, race_vars>>

\* timer_loop() and notify_loop(), after buzzer_loop().
loop_timer_notify ==
    /\ pc = "notify"
    /\ pc' = "engine"
    /\ timer_loop
    /\ notifications' = notify_expired
    /\ UNCHANGED <<now, web_calls, config, prefs, wifi_connected, http_vars,
                   sysmon_last_push_ms, engine_vars, display_vars, net_vars,
                   blocked_ms, render_vars, button_vars, race_vars>>

TimerInstants ==
    {SETUP_DELAY_MS + d : d \in {0, 1000, 2000, 3000, 33000}}
    \cup {SETUP_DELAY_MS + 3000 + k * 60000 : k \in 1..11}

TimerConfigs ==
    { [config_set_defaults EXCEPT !.timer_work_min = 1,
                                  !.timer_break_min = 1,
                                  !.timer_long_break_min = 1,
                                  !.timer_sessions = n] : n \in 1..3 }

InitTimer ==
    /\ now = SETUP_DELAY_MS
    /\ pc = "http"
    /\ web_calls = 0
    /\ config \in TimerConfigs
    /\ prefs = config_save(config)
    /\ wifi_connected = FALSE
    /\ sysmon_last_push_ms = 0
    /\ http_init
    /\ notify_init
    /\ buzzer_init
    /\ net_init
    /\ side_init
    /\ display_init
    /\ engine_init

NextTimer ==
    \/ http_loop([kind |-> "http_error"])
    \/ \E evt \in {"BTN_NONE", "BTN_LEFT_SHORT", "BTN_RIGHT_SHORT",
                   "BTN_RIGHT_LONG"} : loop_buttons_timer(evt)
    \/ loop_buzzer
    \/ loop_timer_notify
    \/ loop_engine
    \/ advance_time(TimerInstants)

SpecTimer ==
    InitTimer /\ [][NextTimer]_vars

\* The timer is paused on this step.
TimerPauses ==
    timer_counting(timer_state) /\ timer_state' = TIMER_PAUSED

\* The timer is resumed on this step.
TimerResumes ==
    timer_state = TIMER_PAUSED /\ timer_counting(timer_state')

\* A pause keeps the time that was left, and a resume counts it down from
\* the moment of the resume.
RemainingRestored ==
    [][/\ TimerPauses =>
              timer_paused_remaining_ms' =
                  Max(timer_duration_ms - USub(now, timer_start_ms), 0)
       /\ TimerResumes =>
              /\ timer_duration_ms' = timer_paused_remaining_ms
              /\ timer_start_ms' = now]_vars

\* C38: pausing and then resuming the pomodoro timer restores the phase
\* that was paused (work, break or long break), with the time that was
\* left of it.
C38_ResumeRestoresPhase ==
    /\ RemainingRestored
    /\ [][TimerResumes => timer_state' = timer_log.paused_phase]_vars

\* The same for a pause during a work session.
C38_ResumeRestoresWork ==
    /\ RemainingRestored
    /\ [][(TimerResumes /\ timer_log.paused_phase = TIMER_RUNNING) =>
              timer_state' = TIMER_RUNNING]_vars

\* A work session was paused half a minute in and resumed later, with
\* half a minute left.
C38_Witness ==
    /\ timer_state = TIMER_RUNNING
    /\ timer_log.paused /\ timer_log.paused_phase = TIMER_RUNNING
    /\ timer_duration_ms = 30000
    /\ timer_paused_remaining_ms = 30000
    /\ timer_start_ms = now

\* A break was paused and resumed, and the timer is in a work session.
C38_WitnessBreak ==
    /\ timer_state = TIMER_RUNNING
    /\ timer_log.paused /\ timer_log.paused_phase = TIMER_BREAK
    /\ timer_duration_ms = timer_paused_remaining_ms
    /\ timer_start_ms = now


\* A work session runs out on this step of a run that was never paused.
WorkEnds ==
    /\ timer_state = TIMER_RUNNING
    /\ timer_state' \in {TIMER_BREAK, TIMER_LONG_BREAK}
    /\ ~timer_log.paused

\* C39: with timer_sessions = N and no pause or reset, a long break follows
\* every N-th completed work session and a short break each of the others,
\* and timer_get_session() stays within 1..N.
C39_LongBreakEveryNth ==
    /\ [][WorkEnds =>
              (timer_state' = TIMER_LONG_BREAK
                   <=> timer_log'.works_done % config.timer_sessions = 0)]_vars
    /\ [](timer_current_session \in 1..config.timer_sessions)

\* The first cycle: the long break follows the N-th work session and a
\* short break each of the sessions before it; and the breaks follow the
\* session counter at all times.
C39_LongBreakAfterFirstN ==
    /\ [][(WorkEnds /\ timer_log'.works_done <= config.timer_sessions) =>
              (timer_state' = TIMER_LONG_BREAK
                   <=> timer_log'.works_done = config.timer_sessions)]_vars
    /\ [][WorkEnds =>
              (timer_state' = TIMER_LONG_BREAK
                   <=> timer_current_session >= config.timer_sessions)]_vars
    /\ [](timer_current_session \in 1..Max(config.timer_sessions, 2))

\* With 3 sessions per cycle, the long break has followed the third work
\* session, the run never paused.
C39_Witness ==
    /\ config.timer_sessions = 3
    /\ timer_state = TIMER_LONG_BREAK
    /\ timer_log.works_done = 3
    /\ ~timer_log.paused
    /\ timer_current_session = 1

\* With 3 sessions per cycle, the second long break has followed the fifth
\* work session.
C39_WitnessFifth ==
    /\ config.timer_sessions = 3
    /\ timer_state = TIMER_LONG_BREAK
    /\ timer_log.works_done = 5
    /\ ~timer_log.paused

\* With 1 session per cycle, the session counter reads 2.
C39_WitnessSession ==
    /\ config.timer_sessions = 1
    /\ timer_current_session = 2
    /\ ~timer_log.paused


(***************************************************************************)
(* The toggle order under two tasks.  The request handlers of the          *)
(* AsyncWebServer run on the server's task while loop() runs on the loop   *)
(* task, and glucose_engine.cpp takes no lock: the statements of           *)
(* engine_rebuild_toggle_order(), engine_toggle_mode(),                    *)
(* engine_toggle_mode_prev() and engine_loop() are the steps here, and the *)
(* steps of the two tasks interleave.                                      *)
(***************************************************************************)
\* toggle_order[i] as the array holds it: the entries below toggle_count,
\* then what earlier rebuilds left, then the zeroes of the static array.
toggle_mem(i) ==
    IF i < Len(toggle_order) THEN toggle_order[i + 1]
    ELSE IF i - Len(toggle_order) < Len(toggle_tail)
    THEN toggle_tail[i - Len(toggle_order) + 1]
    ELSE STATE_BOOT

\* What statement k (1..8) of engine_rebuild_toggle_order() stores.
rebuild_stores(k) ==
    CASE k = 1 -> <<STATE_GLUCOSE_DISPLAY>>
      [] k = 2 -> <<STATE_TREND_DISPLAY>>
      [] k = 3 -> <<STATE_TIME_DISPLAY>>
      [] k = 4 -> IF config.weather_enabled
                  THEN <<STATE_WEATHER_DISPLAY>> ELSE <<>>
      [] k = 5 -> IF config.timer_enabled
                  THEN <<STATE_TIMER_DISPLAY>> ELSE <<>>
      [] k = 6 -> IF config.stopwatch_enabled
                  THEN <<STATE_STOPWATCH_DISPLAY>> ELSE <<>>
      [] k = 7 -> IF config.sysmon_enabled /\ sysmon_has_data
                  THEN <<STATE_SYSMON_DISPLAY>> ELSE <<>>
      [] k = 8 -> IF config.countdown_enabled
                  THEN <<STATE_COUNTDOWN_DISPLAY>> ELSE <<>>
      [] OTHER -> <<>>

\* The variables no statement of the toggle order writes.
race_untouched ==
    <<now, web_calls, wifi_connected, http_vars, notifications,
      sysmon_last_push_ms, ldr_smoothed, time_available, time_hour,
      net_vars, blocked_ms, render_vars, button_vars, timer_vars,
      forced_state, state_forced, default_mode, boot_start_ms, force_req,
      toggle_run, nav_log>>

\* What the evaluation and the rendering of engine_loop() write.
race_drawn ==
    <<current_state, message_buf, drawn_color, alert_vars, buzzer_vars>>

\* One statement of engine_rebuild_toggle_order() on task t: statement 0
\* is toggle_count = 0, statements 1..8 the stores, statement 9 the search
\* for user_mode.  The function returns into engine_loop() on the loop
\* task, and into handle_post_config (which then applies the brightness)
\* on the web task.
engine_rebuild_toggle_order_step(t) ==
    LET k == task[t].at
    IN  /\ pc # "trap"
        /\ task[t].op = "rebuild"
        /\ toggle_order' =
               IF k = 0 THEN <<>> ELSE toggle_order \o rebuild_stores(k)
        /\ toggle_tail' =
               IF k = 0 THEN toggle_order \o toggle_tail
               ELSE SubSeq(toggle_tail, Len(rebuild_stores(k)) + 1,
                           Len(toggle_tail))
        /\ toggle_index' =
               IF k = 9 THEN toggle_index_of(toggle_order, user_mode)
               ELSE toggle_index
        /\ task' = [task EXCEPT ![t] =
               IF k < 9 THEN [op |-> "rebuild", at |-> k + 1]
               ELSE IF t = "loop" THEN [op |-> "engine_loop", at |-> 2]
               ELSE task_idle]
        /\ current_brightness' =
               IF k = 9 /\ t = "web" /\ ~config.auto_brightness
               THEN config.brightness ELSE current_brightness
        /\ UNCHANGED <<pc, config, prefs, user_mode, last_render_ms,
                       last_rebuild_ms, last_cycle_ms, race_log,
                       race_drawn, race_untouched>>

\* toggle_index = (toggle_index + 1) % toggle_count, or the one of
\* engine_toggle_mode_prev(), on task t, which goes on to statement next.
\* The division by zero raises the processor's IntegerDivideByZero
\* exception: the firmware stops.
toggle_index_statement(t, back, next) ==
    LET n == Len(toggle_order)
    IN  IF n = 0
        THEN /\ race_log' = [race_log EXCEPT !.div_zero = TRUE]
             /\ task' = [task EXCEPT ![t] = [op |-> "trap", at |-> 0]]
             /\ pc' = "trap"
             /\ UNCHANGED toggle_index
        ELSE /\ toggle_index' = IF back THEN (toggle_index - 1 + n) % n
                                ELSE (toggle_index + 1) % n
             /\ task' = [task EXCEPT ![t] = next]
             /\ UNCHANGED <<pc, race_log>>

\* user_mode = toggle_order[toggle_index].
toggle_read_statement ==
    /\ user_mode' = toggle_mem(toggle_index)
    /\ race_log' = [race_log EXCEPT
           !.past_count = @ \/ toggle_index >= Len(toggle_order)]

\* One statement of engine_toggle_mode() or engine_toggle_mode_prev() on
\* task t.  On the loop task the function returns into loop(), which goes
\* on to buzzer_loop().
engine_toggle_mode_step(t) ==
    /\ pc # "trap"
    /\ task[t].op \in {"toggle", "toggle_prev"}
    /\ IF task[t].at = 0
       THEN /\ toggle_index_statement(t, task[t].op = "toggle_prev",
                                      [task[t] EXCEPT !.at = 1])
            /\ UNCHANGED <<user_mode, last_cycle_ms>>
       ELSE /\ toggle_read_statement
            /\ last_cycle_ms' = now
            /\ task' = [task EXCEPT ![t] = task_idle]
            /\ pc' = IF t = "loop" THEN "buzzer" ELSE pc
            /\ UNCHANGED toggle_index
    /\ UNCHANGED <<config, prefs, current_brightness, last_render_ms,
                   last_rebuild_ms, toggle_order, toggle_tail, race_drawn,
                   race_untouched>>

\* One statement of engine_loop() on the loop task: 0 the throttle, 1 the
\* periodic rebuild (whose statements are those of
\* engine_rebuild_toggle_order_step), 2 the tests of the auto-cycle, 3 and
\* 4 its two assignments, 5 the evaluation, the rendering and the alerts.
engine_loop_step ==
    LET k         == IF task["loop"].op = "idle" THEN 0 ELSE task["loop"].at
        at(n)     == [op |-> "engine_loop", at |-> n]
        throttled == USub(now, last_render_ms) < RENDER_INTERVAL_MS
        rebuild   == USub(now, last_rebuild_ms) > REBUILD_INTERVAL_MS
        cycling   == config.auto_cycle_enabled /\ Len(toggle_order) > 1
        cycle0    == IF cycling /\ last_cycle_ms = 0 THEN now
                     ELSE last_cycle_ms
        advance   == /\ cycling
                     /\ USub(now, cycle0) >= config.auto_cycle_sec * 1000
    IN  /\ pc = "engine"
        /\ task["loop"].op \in {"idle", "engine_loop"}
        /\ CASE k = 0 ->
                /\ last_render_ms' = IF throttled THEN last_render_ms
                                     ELSE now
                /\ pc' = IF throttled THEN "end" ELSE pc
                /\ task' = [task EXCEPT !["loop"] =
                       IF throttled THEN task_idle ELSE at(1)]
                /\ UNCHANGED <<last_rebuild_ms, last_cycle_ms, toggle_index,
                               user_mode, race_log, current_brightness,
                               race_drawn>>
             [] k = 1 ->
                /\ last_rebuild_ms' = IF rebuild THEN now
                                      ELSE last_rebuild_ms
                /\ task' = [task EXCEPT !["loop"] =
                       IF rebuild THEN [op |-> "rebuild", at |-> 0]
                       ELSE at(2)]
                /\ UNCHANGED <<pc, last_render_ms, last_cycle_ms,
                               toggle_index, user_mode, race_log,
                               current_brightness, race_drawn>>
             [] k = 2 ->
                /\ last_cycle_ms' = IF advance THEN now ELSE cycle0
                /\ task' = [task EXCEPT !["loop"] =
                       IF advance THEN at(3) ELSE at(5)]
                /\ UNCHANGED <<pc, last_render_ms, last_rebuild_ms,
                               toggle_index, user_mode, race_log,
                               current_brightness, race_drawn>>
             [] k = 3 ->
                /\ toggle_index_statement("loop", FALSE, at(4))
                /\ UNCHANGED <<last_render_ms, last_rebuild_ms,
                               last_cycle_ms, user_mode,
                               current_brightness, race_drawn>>
             [] k = 4 ->
                /\ toggle_read_statement
                /\ task' = [task EXCEPT !["loop"] = at(5)]
                /\ UNCHANGED <<pc, last_render_ms, last_rebuild_ms,
                               last_cycle_ms, toggle_index,
                               current_brightness, race_drawn>>
             [] OTHER ->
                /\ current_state' = evaluate_state(user_mode)
                /\ message_buf' = IF evaluate_copies_message(user_mode)
                                  THEN current_reading.message
                                  ELSE message_buf
                /\ current_brightness' = render_brightness(current_state')
                /\ drawn_color' = IF current_state' \in DisplayState
                                  THEN render_color(current_state')
                                  ELSE drawn_color
                /\ check_alerts
                /\ pc' = "end"
                /\ task' = [task EXCEPT !["loop"] = task_idle]
                /\ UNCHANGED <<last_render_ms, last_rebuild_ms,
                               last_cycle_ms, toggle_index, user_mode,
                               race_log>>
        /\ UNCHANGED <<config, prefs, toggle_order, toggle_tail,
                       race_untouched>>

\* loop() takes the button event: BTN_LEFT_SHORT enters
\* engine_toggle_mode(), no event goes on to buzzer_loop().
loop_buttons_begin(evt) ==
    /\ pc = "buttons"
    /\ task["loop"].op = "idle"
    /\ pc' = IF evt = "BTN_LEFT_SHORT" THEN pc ELSE "buzzer"
    /\ task' = [task EXCEPT !["loop"] =
           IF evt = "BTN_LEFT_SHORT" THEN [op |-> "toggle", at |-> 0]
           ELSE task_idle]
    /\ current_brightness' =
           IF config.auto_brightness THEN sensors_get_auto_brightness
           ELSE current_brightness
    /\ UNCHANGED <<config, prefs, user_mode, last_render_ms,
                   last_rebuild_ms, last_cycle_ms, toggle_order,
                   toggle_index, toggle_tail, race_log, race_drawn,
                   race_untouched>>

\* The web task takes a request: POST /api/config stores the document and
\* enters engine_rebuild_toggle_order(); POST /api/display/next and
\* /api/display/prev enter the two toggles.
handle_web_begin(op, cfg) ==
    /\ pc # "trap"
    /\ task["web"].op = "idle"
    /\ web_calls < MaxWebCalls
    /\ web_calls' = web_calls + 1
    /\ config' = cfg
    /\ prefs' = IF op = "rebuild" THEN config_save(cfg) ELSE prefs
    /\ task' = [task EXCEPT !["web"] = [op |-> op, at |-> 0]]
    /\ UNCHANGED <<now, pc, wifi_connected, http_vars, notifications,
                   sysmon_last_push_ms, engine_vars, buzzer_vars,
                   display_vars, net_vars, blocked_ms, render_vars,
                   button_vars, timer_vars, toggle_tail, race_log>>

handle_post_config_begin(doc) ==
    handle_web_begin("rebuild", config_after_post(doc))

handle_display_next_begin ==
    handle_web_begin("toggle", config)

handle_display_prev_begin ==
    handle_web_begin("toggle_prev", config)

\* The passes of loop(): the first, and one 5.3 s later at which the
\* periodic rebuild and the auto-cycle are due.
RaceInstants ==
    {SETUP_DELAY_MS + 5300}

\* The stored configurations: the defaults, with the auto-cycle off or on
\* at 5 s.
RaceConfigs ==
    {[config_set_defaults EXCEPT !.auto_cycle_enabled = ac,
                                 !.auto_cycle_sec = 5] : ac \in BOOLEAN}

RaceButtonEvents ==
    {"BTN_NONE", "BTN_LEFT_SHORT"}

RaceConfigDocs ==
    {[countdown_enabled |-> TRUE]}

InitRace ==
    /\ now = SETUP_DELAY_MS
    /\ pc = "http"
    /\ web_calls = 0
    /\ config \in RaceConfigs
    /\ prefs = config_save(config)
    /\ wifi_connected = FALSE
    /\ sysmon_last_push_ms = 0
    /\ http_init
    /\ notify_init
    /\ buzzer_init
    /\ net_init
    /\ side_init
    /\ display_init
    /\ engine_init

NextRace ==
    \/ \E o \in PollOutcomes : http_loop(o)
    \/ \E evt \in RaceButtonEvents : loop_buttons_begin(evt)
    \/ loop_buzzer
    \/ notify_loop
    \/ engine_loop_step
    \/ advance_time(RaceInstants)
    \/ \E t \in Tasks : engine_rebuild_toggle_order_step(t)
    \/ \E t \in Tasks : engine_toggle_mode_step(t)
    \/ \E doc \in RaceConfigDocs : handle_post_config_begin(doc)
    \/ handle_display_next_begin
    \/ handle_display_prev_begin

SpecRace ==
    InitRace /\ [][NextRace]_vars

\* A rebuild of the toggle order is in progress on some task.
Rebuilding ==
    \E t \in Tasks : task[t].op = "rebuild"

\* C40: with the web server's callbacks (the rebuild after a config write,
\* the two remote toggles) interleaved at any point with engine_loop() and
\* the button navigation of the main loop, the engine never computes a
\* modulo by toggle_count == 0 and never reads toggle_order[] at an index
\* >= toggle_count.
C40_NeverPartialOrder ==
    /\ ~race_log.div_zero
    /\ ~race_log.past_count

\* What holds at every interleaving: outside a rebuild, the order has its
\* three fixed screens at least and toggle_count stays within the array.
C40_WholeOrderOutsideRebuild ==
    /\ Len(toggle_order) + Len(toggle_tail) <= TOGGLE_ORDER_SIZE
    /\ ~Rebuilding => Len(toggle_order) >= 3

\* The button's engine_toggle_mode() on the loop task has divided by a
\* toggle_count of 0 while the web task is inside the rebuild that follows
\* a config write.
C40_Witness ==
    /\ race_log.div_zero
    /\ task["loop"].op = "trap"
    /\ task["web"].op = "rebuild"

\* The remote toggle on the web task has read toggle_order[] at an index
\* >= toggle_count while the loop task is inside its periodic rebuild.
C40_WitnessRead ==
    /\ race_log.past_count
    /\ ~race_log.div_zero
    /\ task["loop"].op = "rebuild"
    /\ task["web"].op = "idle"
    /\ web_calls = 1

=============================================================================
